---- MODULE Spec2Model ----
(***************************************************************************)
(* A model of the SyzyASan shadow memory (syzygy/agent/asan/shadow.cc),    *)
(* of the FakeAsanBlock test fixture that drives it                        *)
(* (syzygy/agent/asan/unittest_util.cc) and of the free path of the block  *)
(* heap manager (syzygy/agent/asan/heap_managers/block_heap_manager.h),    *)
(* and of the error path of the runtime: OnError and the exception filter  *)
(* (syzygy/agent/asan/asan_runtime.cc).                                    *)
(*                                                                         *)
(* Addresses are byte addresses of a scaled-down address space of          *)
(* 8 * kShadowSize bytes; a shadow index is an address divided by          *)
(* kShadowRatio.  The shadow array is 8-byte aligned (shadow.cc:545), so   *)
(* the alignment of a pointer into it is the alignment of its index.  The  *)
(* page protection bits follow the shadow array in memory, and are scaled  *)
(* down to one granule.                                                    *)
(***************************************************************************)
EXTENDS Integers, Sequences, FiniteSets, TLC

VARIABLES
  shadow,        \* Shadow::shadow_ : shadow index -> marker byte
  before,        \* the shadow as it was when the last operation was entered
  last,          \* the last operation and its arguments
  block_info,    \* FakeAsanBlock::block_info (with the header's state)
  blocks,        \* heap manager: block id -> the block and its header
  quarantine,    \* heap manager: shard -> FIFO of the block ids it holds
  errors,        \* the kinds handed to the heap error callback, in order
  parameters,    \* BlockHeapManager::parameters_
  runtime_,      \* AsanRuntime::runtime_ and the fields of the runtime bound
  breakpad_functions,  \* the static breakpad_functions all runtimes share
  host,          \* the process: what the executable exports, the filters
  lock_,         \* AsanRuntime::lock_ : the thread that holds it, or 0
  block_protect_lock,  \* the recursive lock: its owner (or 0) and its depth
  threads,       \* thread -> where it is in the error path, and with what
  log,           \* what the error path has done, in order
  writes,        \* the stores to shadow_ the call in flight has yet to make
  probe,         \* the read made without a lock while a call is in flight
  page_bits_,    \* Shadow::page_bits_ : index -> byte of page bits
  page_bits_lock_,  \* Shadow::page_bits_lock_ : the thread that holds it, or 0
  updates,       \* thread -> where it is in an update of page_bits_
  heaps_,        \* BlockHeapManager::heaps_ : the valid heap ids
  heap_id,       \* block id -> the heap_id of the block's trailer
  walker,        \* a ShadowWalker: its fields, and what Next has returned
  corrupt_heap_info  \* what WriteCorruptHeapInfo has set and written

memvars ==
  <<shadow, before, last, block_info, blocks, quarantine, errors, parameters>>

rtvars ==
  <<runtime_, breakpad_functions, host, lock_, block_protect_lock, threads,
    log>>

racevars == <<writes, probe, page_bits_, page_bits_lock_, updates>>

heapvars == <<heaps_, heap_id>>

walkvars == <<walker, corrupt_heap_info>>

vars == <<memvars, rtvars, racevars, heapvars, walkvars>>

(***************************************************************************)
(* Bounds of the model.                                                    *)
(***************************************************************************)
ShadowWords == 4            \* the shadow holds 8 * ShadowWords bytes
LowerBoundGranules == 2     \* granules below Shadow::kAddressLowerBound
MaxSmallBody == 17          \* small bodies are 0 .. MaxSmallBody bytes
MaxRedzoneGranules == 2     \* granules of a left or of a right redzone
MaxAllocs == 3              \* allocations made from the heap manager
HeapGranules == 12          \* granules the underlying heap hands out
ShardingFactor == 2         \* shards of the quarantine
MaxErrors == 2              \* errors the heap error callback is handed

(***************************************************************************)
(* Constants of the program.                                               *)
(***************************************************************************)
kShadowRatio == 8
kShadowSize == 8 * ShadowWords
kAddressLowerBound == kShadowRatio * LowerBoundGranules
kShadowAddress == kAddressLowerBound       \* where shadow_ itself lives
kPageBitsSize == kShadowRatio              \* bytes of page_bits_
kPageBitsAddress == kShadowAddress + kShadowSize   \* where page_bits_ lives
kArenaGranule == (kPageBitsAddress + kPageBitsSize) \div kShadowRatio

sizeof_BlockHeader == 16
sizeof_BlockTrailer == 20

kHeapAddressableMarker == 0
kHeapPartiallyAddressableByte7 == 7
kHeapBlockStartMarker0 == 224          \* 0xE0
kHeapNestedBlockStartMarker0 == 232    \* 0xE8
kAsanMemoryMarker == 241               \* 0xF1
kInvalidAddressMarker == 242           \* 0xF2
kUserRedzoneMarker == 243              \* 0xF3
kHeapBlockEndMarker == 244             \* 0xF4
kHeapNestedBlockEndMarker == 245       \* 0xF5
kHeapLeftPaddingMarker == 250          \* 0xFA
kHeapRightPaddingMarker == 251         \* 0xFB
kAsanReservedMarker == 252             \* 0xFC
kHeapFreedMarker == 253                \* 0xFD

(***************************************************************************)
(* ShadowMarkerHelper.  A marker with bit 7 set is a redzone marker; the   *)
(* historic variant of a block marker is the active one with bit 5         *)
(* cleared (0xC0..0xCF, 0xD4, 0xD5, ...).                                  *)
(***************************************************************************)
IsRedzone(marker) == marker >= 128
IsActiveBlockStart(marker) == marker \div 16 = 14
IsBlockStart(marker) == marker \div 16 \in {12, 14}
IsNestedBlockStart(marker) == IsBlockStart(marker) /\ (marker \div 8) % 2 = 1
GetBlockStartData(marker) == marker % 8
IsActiveBlockEnd(marker) ==
  marker \in {kHeapBlockEndMarker, kHeapNestedBlockEndMarker}
IsBlockEnd(marker) == IsActiveBlockEnd(marker) \/ marker \in {212, 213}
IsNestedBlockEnd(marker) == IsBlockEnd(marker) /\ marker % 2 = 1
IsActiveLeftRedzone(marker) ==
  marker = kHeapLeftPaddingMarker \/ IsActiveBlockStart(marker)
IsActiveRightRedzone(marker) ==
  marker = kHeapRightPaddingMarker \/ IsActiveBlockEnd(marker)
BuildBlockStart(active, nested, data) ==
  (IF active THEN kHeapBlockStartMarker0 ELSE 192)
    + (IF nested THEN 8 ELSE 0) + data
BuildBlockEnd(active, nested) ==
  (IF active THEN kHeapBlockEndMarker ELSE 212) + (IF nested THEN 1 ELSE 0)

(***************************************************************************)
(* ::memset on the shadow: n bytes from index start become val.            *)
(***************************************************************************)
Memset(s, start, val, n) ==
  [i \in DOMAIN s |-> IF start <= i /\ i < start + n THEN val ELSE s[i]]

(***************************************************************************)
(* Shadow::Poison and Shadow::Unpoison.                                    *)
(***************************************************************************)
\* Poison that stores the partial-length form in the last shadow byte of
\* the range.
M_PoisonPartialLast(s, addr, size, shadow_val) ==
  LET index == addr \div 8
      start == addr % 8
      s1 == Memset(s, index, shadow_val, (size + 7) \div 8)
  IN  IF start # 0 THEN [s1 EXCEPT ![(addr + size - 1) \div 8] = start] ELSE s1

Poison(s, addr, size, shadow_val) ==
  LET index == addr \div 8
      start == addr % 8
      s1 == IF start # 0 THEN [s EXCEPT ![index] = start] ELSE s
      index1 == IF start # 0 THEN index + 1 ELSE index
  IN  Memset(s1, index1, shadow_val, size \div 8)

\* Unpoison without the partial marker of the last granule.
M_UnpoisonNoRemainder(s, addr, size) ==
  Memset(s, addr \div 8, kHeapAddressableMarker, size \div 8)

Unpoison(s, addr, size) ==
  LET remainder == size % 8
      index == addr \div 8
      size8 == size \div 8
      s1 == Memset(s, index, kHeapAddressableMarker, size8)
  IN  IF remainder # 0 THEN [s1 EXCEPT ![index + size8] = remainder] ELSE s1

(***************************************************************************)
(* Shadow::MarkAsFreed and its helpers.                                    *)
(***************************************************************************)
\* MarkAsFreedImpl8 that keeps the left redzone markers only.
M_MarkAsFreedImpl8LeftOnly(s, cursor, cursor_end) ==
  [i \in DOMAIN s |->
     IF cursor <= i /\ i < cursor_end /\ ~IsActiveLeftRedzone(s[i])
     THEN kHeapFreedMarker
     ELSE s[i]]

MarkAsFreedImpl8(s, cursor, cursor_end) ==
  [i \in DOMAIN s |->
     IF cursor <= i /\ i < cursor_end
        /\ ~(IsActiveLeftRedzone(s[i]) \/ IsActiveRightRedzone(s[i]))
     THEN kHeapFreedMarker
     ELSE s[i]]

RECURSIVE MarkAsFreedImplAligned64(_, _, _)
MarkAsFreedImplAligned64(s, cursor, cursor_end) ==
  IF cursor >= cursor_end THEN s
  ELSE LET s1 == IF \A i \in cursor .. cursor + 7 : s[i] = 0
                 THEN Memset(s, cursor, kHeapFreedMarker, 8)
                 ELSE MarkAsFreedImpl8(s, cursor, cursor + 8)
       IN  MarkAsFreedImplAligned64(s1, cursor + 8, cursor_end)

\* MarkAsFreedImpl64 without the unaligned head of a long range.
M_MarkAsFreedImpl64NoHead(s, cursor, cursor_end) ==
  IF cursor_end - cursor >= 2 * 8
  THEN LET cursor_aligned == ((cursor + 7) \div 8) * 8
           cursor_end_aligned == (cursor_end \div 8) * 8
           s2 == MarkAsFreedImplAligned64(s, cursor_aligned,
                                          cursor_end_aligned)
       IN  MarkAsFreedImpl8(s2, cursor_end_aligned, cursor_end)
  ELSE MarkAsFreedImpl8(s, cursor, cursor_end)

MarkAsFreedImpl64(s, cursor, cursor_end) ==
  IF cursor_end - cursor >= 2 * 8
  THEN LET cursor_aligned == ((cursor + 7) \div 8) * 8
           cursor_end_aligned == (cursor_end \div 8) * 8
           s1 == MarkAsFreedImpl8(s, cursor, cursor_aligned)
           s2 == MarkAsFreedImplAligned64(s1, cursor_aligned,
                                          cursor_end_aligned)
       IN  MarkAsFreedImpl8(s2, cursor_end_aligned, cursor_end)
  ELSE MarkAsFreedImpl8(s, cursor, cursor_end)

\* MarkAsFreed with the length rounded down instead of up.
M_MarkAsFreedRoundDown(s, addr, size) ==
  LET index == addr \div kShadowRatio
      length == size \div kShadowRatio
  IN  MarkAsFreedImpl64(s, index, index + length)

MarkAsFreed(s, addr, size) ==
  LET index == addr \div kShadowRatio
      length == (size + kShadowRatio - 1) \div kShadowRatio
  IN  MarkAsFreedImpl64(s, index, index + length)

(***************************************************************************)
(* The shadow's queries.                                                   *)
(***************************************************************************)
GetShadowMarkerForAddress(s, addr) == s[addr \div 8]

\* IsAccessible with the partial marker compared off by one.
M_IsAccessibleOffByOne(s, addr) ==
  LET start == addr % 8
      marker == s[addr \div 8]
  IN  IF marker = 0 THEN TRUE
      ELSE IF IsRedzone(marker) THEN FALSE
      ELSE start <= marker

IsAccessible(s, addr) ==
  LET start == addr % 8
      marker == s[addr \div 8]
  IN  IF marker = 0 THEN TRUE
      ELSE IF IsRedzone(marker) THEN FALSE
      ELSE start < marker

IsLeftRedzone(s, address) ==
  IsActiveLeftRedzone(GetShadowMarkerForAddress(s, address))

\* IsRightRedzone that ignores the offset in a partial granule.
M_IsRightRedzoneNoOffset(s, address) ==
  LET index == address \div 8
      marker == s[index]
  IN  IF marker = 0 THEN FALSE
      ELSE IF marker <= kHeapPartiallyAddressableByte7
      THEN IF index = kShadowSize THEN FALSE
           ELSE IsActiveRightRedzone(s[index + 1])
      ELSE IsActiveRightRedzone(marker)

IsRightRedzone(s, address) ==
  LET index == address \div 8
      start == address % 8
      marker == s[index]
  IN  IF marker = 0 THEN FALSE
      ELSE IF marker <= kHeapPartiallyAddressableByte7
      THEN IF index = kShadowSize THEN FALSE
           ELSE IF ~IsActiveRightRedzone(s[index + 1]) THEN FALSE
           ELSE start >= marker
      ELSE IsActiveRightRedzone(marker)

IsBlockStartByte(s, address) ==
  LET start == address % 8
      marker == s[address \div 8]
  IN  IF start # 0 THEN FALSE
      ELSE IF ~IsActiveBlockStart(marker) THEN FALSE
      ELSE TRUE

\* IsBeginningOfBlockBody that forgets the freed body.
M_IsBeginningOfBlockBodyNoFreed(s, addr) ==
  IF IsAccessible(s, addr) \/ IsRightRedzone(s, addr)
  THEN IsLeftRedzone(s, addr - 1)
  ELSE FALSE

IsBeginningOfBlockBody(s, addr) ==
  IF IsAccessible(s, addr) \/ IsRightRedzone(s, addr)
     \/ GetShadowMarkerForAddress(s, addr) = kHeapFreedMarker
  THEN IsLeftRedzone(s, addr - 1)
  ELSE FALSE

\* The indices of shadow_ a query reads for an address: index is the
\* address shifted by 3.  IsRightRedzone reads shadow_[index + 1] for a
\* partial marker unless index == arraysize(shadow_);
\* IsBeginningOfBlockBody reads what IsAccessible reads, then, one after
\* the other and as far as the disjunction goes, what IsRightRedzone and
\* GetShadowMarkerForAddress read, then the index of addr - 1.  The value
\* of a read outside shadow_ is not determined: both branches count.
ShadowIndicesRead(s, query, address) ==
  LET index == address \div 8
      right == {index} \cup (IF /\ s[index] # 0
                                /\ s[index] <= kHeapPartiallyAddressableByte7
                                /\ index # kShadowSize
                             THEN {index + 1} ELSE {})
  IN  CASE query = "IsRightRedzone" -> right
        [] query = "IsBeginningOfBlockBody" ->
             {index}
               \cup (IF IsAccessible(s, address) THEN {} ELSE right)
               \cup (IF \/ IsAccessible(s, address)
                        \/ ~(right \subseteq DOMAIN s)
                        \/ IsRightRedzone(s, address)
                        \/ s[index] = kHeapFreedMarker
                     THEN {(address - 1) \div 8} ELSE {})
        [] OTHER -> {index}

(***************************************************************************)
(* A block: its base address and the sizes of its parts, in bytes.         *)
(***************************************************************************)
BodyOf(info) == info.block + info.header_size

\* The byte addresses of a block, those of its body, and the shadow
\* indices of its body.
Envelope(info) == info.block .. info.block + info.block_size - 1

BodyBytes(info) == BodyOf(info) .. BodyOf(info) + info.body_size - 1

BodyGranules(info) ==
  BodyOf(info) \div kShadowRatio ..
    (BodyOf(info) + info.body_size + kShadowRatio - 1) \div kShadowRatio - 1

(***************************************************************************)
(* Shadow::PoisonAllocatedBlock.                                           *)
(***************************************************************************)
\* PoisonAllocatedBlock whose right redzone is one granule too long.
M_PoisonAllocatedBlockLongRedzone(s, info) ==
  LET index == info.block \div kShadowRatio
      left_redzone_bytes == (BodyOf(info) - info.block) \div kShadowRatio
      body_bytes == (info.body_size + kShadowRatio - 1) \div kShadowRatio
      block_bytes == info.block_size \div kShadowRatio
      right_redzone_bytes == block_bytes - left_redzone_bytes - body_bytes
      body_size_mod == info.body_size % kShadowRatio
      s1 == Memset(s, index, BuildBlockStart(TRUE, info.is_nested,
                                             body_size_mod), 1)
      s2 == Memset(s1, index + 1, kHeapLeftPaddingMarker,
                   left_redzone_bytes - 1)
      s3 == Memset(s2, index + left_redzone_bytes, kHeapAddressableMarker,
                   body_bytes)
      cursor == index + left_redzone_bytes + body_bytes
      s4 == IF body_size_mod > 0
            THEN [s3 EXCEPT ![cursor - 1] = body_size_mod]
            ELSE s3
      s5 == Memset(s4, cursor, kHeapRightPaddingMarker, right_redzone_bytes)
  IN  Memset(s5, cursor + right_redzone_bytes,
             BuildBlockEnd(TRUE, info.is_nested), 1)

PoisonAllocatedBlock(s, info) ==
  LET index == info.block \div kShadowRatio
      left_redzone_bytes == (BodyOf(info) - info.block) \div kShadowRatio
      body_bytes == (info.body_size + kShadowRatio - 1) \div kShadowRatio
      block_bytes == info.block_size \div kShadowRatio
      right_redzone_bytes == block_bytes - left_redzone_bytes - body_bytes
      body_size_mod == info.body_size % kShadowRatio
      header_marker == BuildBlockStart(TRUE, info.is_nested, body_size_mod)
      trailer_marker == BuildBlockEnd(TRUE, info.is_nested)
      s1 == Memset(s, index, header_marker, 1)
      s2 == Memset(s1, index + 1, kHeapLeftPaddingMarker,
                   left_redzone_bytes - 1)
      cursor1 == index + left_redzone_bytes
      s3 == Memset(s2, cursor1, kHeapAddressableMarker, body_bytes)
      cursor == cursor1 + body_bytes
      s4 == IF body_size_mod > 0
            THEN [s3 EXCEPT ![cursor - 1] = body_size_mod]
            ELSE s3
      s5 == Memset(s4, cursor, kHeapRightPaddingMarker,
                   right_redzone_bytes - 1)
  IN  Memset(s5, cursor + right_redzone_bytes - 1, trailer_marker, 1)

(***************************************************************************)
(* Shadow::ScanLeftForBracketingBlockStart.  The result is                 *)
(* [ok |-> the return value, location |-> *location].                      *)
(***************************************************************************)
RECURSIVE ScanLeftLoop(_, _, _)
ScanLeftLoop(s, left, nesting_depth) ==
  LET kLowerBound == kAddressLowerBound \div kShadowRatio
      start == IsBlockStart(s[left])
      end == ~start /\ IsBlockEnd(s[left])
      depth == IF start THEN nesting_depth - 1
               ELSE IF end THEN nesting_depth + 1
               ELSE nesting_depth
  IN  IF start /\ nesting_depth = 0 THEN [ok |-> TRUE, location |-> left]
      ELSE IF start /\ ~IsNestedBlockStart(s[left])
      THEN [ok |-> FALSE, location |-> 0]
      ELSE IF end /\ depth > 0 /\ ~IsNestedBlockEnd(s[left])
      THEN [ok |-> FALSE, location |-> 0]
      ELSE IF left <= kLowerBound THEN [ok |-> FALSE, location |-> 0]
      ELSE ScanLeftLoop(s, left - 1, depth)

\* The left scan without the adjustment for a cursor on a block end.
M_ScanLeftNoEndAdjust(s, initial_nesting_depth, cursor) ==
  ScanLeftLoop(s, cursor, initial_nesting_depth)

\* The left scan that stops at the first block start, whatever the depth.
M_ScanLeftIgnoreNesting(s, initial_nesting_depth, cursor) ==
  LET starts == {i \in kAddressLowerBound \div kShadowRatio .. cursor : IsBlockStart(s[i])}
  IN  IF starts = {} THEN [ok |-> FALSE, location |-> 0]
      ELSE [ok |-> TRUE, location |-> CHOOSE i \in starts : \A j \in starts : i >= j]

ScanLeftForBracketingBlockStart(s, initial_nesting_depth, cursor) ==
  ScanLeftLoop(s, cursor,
               IF IsBlockEnd(s[cursor]) THEN initial_nesting_depth - 1
               ELSE initial_nesting_depth)

(***************************************************************************)
(* ScanRightForPotentialHeaderBytes: skips shadow bytes that read, 1, 2, 4 *)
(* or 8 at a time, as all addressable or all freed.                        *)
(***************************************************************************)
RECURSIVE ScanRight64(_, _, _)
ScanRight64(s, pos, end) ==
  IF pos < end
  THEN IF (\E i \in pos .. pos + 7 : s[i] # 0)
          /\ (\E i \in pos .. pos + 7 : s[i] # kHeapFreedMarker)
       THEN pos
       ELSE ScanRight64(s, pos + 8, end)
  ELSE pos

\* ScanRightForPotentialHeaderBytes that judges a window of 2, 4 or 8
\* shadow bytes by its first byte.
RECURSIVE M_ScanRightFirstByteOfWindow(_, _, _)
M_ScanRightFirstByteOfWindow(s, pos, end) ==
  LET n == CASE pos % 8 \in {1, 3, 5, 7} -> 1
             [] pos % 8 \in {2, 6} -> 2
             [] pos % 8 = 4 -> 4
             [] OTHER -> 8
  IN  IF pos >= end THEN pos
      ELSE IF s[pos] # 0 /\ s[pos] # kHeapFreedMarker THEN pos
      ELSE M_ScanRightFirstByteOfWindow(s, pos + n, end)

ScanRightForPotentialHeaderBytes(s, pos, end) ==
  LET Stop(p, n) == (\E i \in p .. p + n - 1 : s[i] # 0)
                    /\ (\E i \in p .. p + n - 1 : s[i] # kHeapFreedMarker)
      From4(p) == IF Stop(p, 4) THEN p ELSE ScanRight64(s, p + 4, end)
      From2(p) == IF Stop(p, 2) THEN p ELSE From4(p + 2)
      From6(p) == IF Stop(p, 2) THEN p ELSE ScanRight64(s, p + 2, end)
  IN  CASE pos % 8 = 1 -> IF Stop(pos, 1) THEN pos ELSE From2(pos + 1)
        [] pos % 8 = 2 -> From2(pos)
        [] pos % 8 = 4 -> From4(pos)
        [] pos % 8 = 3 -> IF Stop(pos, 1) THEN pos ELSE From4(pos + 1)
        [] pos % 8 = 5 -> IF Stop(pos, 1) THEN pos ELSE From6(pos + 1)
        [] pos % 8 = 6 -> From6(pos)
        [] pos % 8 = 7 -> IF Stop(pos, 1) THEN pos
                          ELSE ScanRight64(s, pos + 1, end)
        [] OTHER -> ScanRight64(s, pos, end)

(***************************************************************************)
(* Shadow::ScanRightForBracketingBlockEnd.                                 *)
(***************************************************************************)
RECURSIVE ScanRightLoop(_, _, _)
ScanRightLoop(s, pos0, nesting_depth) ==
  IF pos0 >= kShadowSize THEN [ok |-> FALSE, location |-> 0]
  ELSE
    LET pos == ScanRightForPotentialHeaderBytes(s, pos0, kShadowSize)
    IN  IF pos = kShadowSize THEN [ok |-> FALSE, location |-> 0]
        ELSE IF IsBlockEnd(s[pos])
        THEN IF nesting_depth = 0 THEN [ok |-> TRUE, location |-> pos]
             ELSE IF ~IsNestedBlockEnd(s[pos])
             THEN [ok |-> FALSE, location |-> 0]
             ELSE ScanRightLoop(s, pos + 1, nesting_depth - 1)
        ELSE IF IsBlockStart(s[pos])
        THEN IF nesting_depth + 1 > 0 /\ ~IsNestedBlockStart(s[pos])
             THEN [ok |-> FALSE, location |-> 0]
             ELSE ScanRightLoop(s, pos + 1, nesting_depth + 1)
        ELSE ScanRightLoop(s, pos + 1, nesting_depth)

\* The right scan that stops at the first block end, whatever the depth.
M_ScanRightIgnoreNesting(s, initial_nesting_depth, cursor) ==
  LET ends == {i \in cursor .. kShadowSize - 1 : IsBlockEnd(s[i])}
  IN  IF ends = {} THEN [ok |-> FALSE, location |-> 0]
      ELSE [ok |-> TRUE, location |-> CHOOSE i \in ends : \A j \in ends : i <= j]

ScanRightForBracketingBlockEnd(s, initial_nesting_depth, cursor) ==
  ScanRightLoop(s, cursor,
                IF IsBlockStart(s[cursor]) THEN initial_nesting_depth - 1
                ELSE initial_nesting_depth)

(***************************************************************************)
(* Shadow::BlockInfoFromShadowImpl.  The result is [ok |-> the return      *)
(* value, info |-> *info], info being a CompactBlockInfo.                  *)
(***************************************************************************)
NoInfo ==
  [block |-> 0, block_size |-> 0, header_size |-> 0, trailer_size |-> 0,
   is_nested |-> FALSE]

BlockInfoFromShadowImpl(s, initial_nesting_depth, addr) ==
  LET cursor == addr \div kShadowRatio
      l == ScanLeftForBracketingBlockStart(s, initial_nesting_depth, cursor)
      r == ScanRightForBracketingBlockEnd(s, initial_nesting_depth, cursor)
      left0 == l.location
      right0 == r.location + 1
      body_size_mod == GetBlockStartData(s[left0])
      \* ++left; while (left < right && shadow_[left] == left padding) ++left;
      left == CHOOSE i \in left0 + 1 .. right0 :
                /\ (i = right0 \/ s[i] # kHeapLeftPaddingMarker)
                /\ \A j \in left0 + 1 .. i - 1 :
                     j < right0 /\ s[j] = kHeapLeftPaddingMarker
      \* --right; while (right > left && shadow_[right - 1] == right
      \* padding) --right;
      right == CHOOSE i \in 0 .. right0 - 1 :
                 /\ (i <= left \/ s[i - 1] # kHeapRightPaddingMarker)
                 /\ \A j \in i + 1 .. right0 - 1 :
                      j > left /\ s[j - 1] = kHeapRightPaddingMarker
      body == left * kShadowRatio
      body_size0 == (right - left) * kShadowRatio
      body_size == IF body_size_mod > 0
                   THEN body_size0 - kShadowRatio + body_size_mod
                   ELSE body_size0
      block == left0 * kShadowRatio
      block_size == (right0 - left0) * kShadowRatio
  IN  IF ~l.ok THEN [ok |-> FALSE, info |-> NoInfo]
      ELSE IF ~r.ok THEN [ok |-> FALSE, info |-> NoInfo]
      ELSE [ok |-> TRUE,
            info |-> [block |-> block,
                      block_size |-> block_size,
                      header_size |-> body - block,
                      trailer_size |-> block_size - body_size - (body - block),
                      is_nested |-> IsNestedBlockStart(s[left0])]]

BlockInfoFromShadow(s, addr) == BlockInfoFromShadowImpl(s, 0, addr)

(***************************************************************************)
(* Shadow::SetUp: the shadow's own memory and the page protection bits    *)
(* are runtime memory and the addresses below kAddressLowerBound are       *)
(* invalid.                                                                *)
(***************************************************************************)
\* SetUp that leaves the page protection bits unpoisoned.
M_SetUpNoPageBits(s) ==
  LET s1 == Poison(s, kShadowAddress, kShadowSize, kAsanMemoryMarker)
  IN  Poison(s1, 0, kAddressLowerBound, kInvalidAddressMarker)

SetUp(s) ==
  LET s1 == Poison(s, kShadowAddress, kShadowSize, kAsanMemoryMarker)
      s2 == Poison(s1, 0, kAddressLowerBound, kInvalidAddressMarker)
  IN  Poison(s2, kPageBitsAddress, kPageBitsSize, kAsanMemoryMarker)

ResetShadow == [i \in 0 .. kShadowSize - 1 |-> 0]

(***************************************************************************)
(* The shadows a block is laid over: the one SetUp leaves, and one in      *)
(* which earlier Unpoison, Poison and MarkAsFreed calls have left partial  *)
(* markers, user redzones and freed granules in the arena.                 *)
(***************************************************************************)
UsedShadow ==
  [i \in 0 .. kShadowSize - 1 |->
     IF i < kArenaGranule THEN SetUp(ResetShadow)[i]
     ELSE CASE i % 4 = 1 -> 1 + (i % 7)
            [] i % 4 = 2 -> kUserRedzoneMarker
            [] i % 4 = 3 -> kHeapFreedMarker
            [] OTHER -> kHeapAddressableMarker]

InitialShadows == {SetUp(ResetShadow), UsedShadow}

(***************************************************************************)
(* The blocks PoisonAllocatedBlock accepts: base and size multiples of     *)
(* kShadowRatio, a left redzone and a right redzone of at least one        *)
(* granule each, in the arena.  A body is small, or large enough for       *)
(* MarkAsFreedImpl64 to take its aligned path (2 * sizeof(uint64) shadow   *)
(* bytes).                                                                 *)
(***************************************************************************)
BodySizes ==
  (0 .. MaxSmallBody) \cup {2 * 8 * kShadowRatio + k : k \in 0 .. MaxSmallBody}

NoBlock ==
  [block |-> 0, block_size |-> 0, header_size |-> 0, body_size |-> 0,
   trailer_size |-> 0, is_nested |-> FALSE, state |-> "NONE",
   free_stack |-> "NULL", free_tid |-> 0]

PlannedBlocks ==
  {[block |-> b * kShadowRatio,
    block_size |-> (h + (n + kShadowRatio - 1) \div kShadowRatio + t)
                     * kShadowRatio,
    header_size |-> h * kShadowRatio,
    body_size |-> n,
    trailer_size |-> ((n + kShadowRatio - 1) \div kShadowRatio + t)
                       * kShadowRatio - n,
    is_nested |-> nested,
    state |-> "ALLOCATED_BLOCK", free_stack |-> "NULL", free_tid |-> 0] :
     b \in kArenaGranule .. kShadowSize - 1, h \in 1 .. MaxRedzoneGranules,
     n \in BodySizes, t \in 1 .. MaxRedzoneGranules, nested \in BOOLEAN}

FittingBlocks ==
  {info \in PlannedBlocks :
     info.block + info.block_size <= kShadowSize * kShadowRatio}

\* What `last` records: the operation, its address and size arguments, the
\* marker given to Poison, for the heap manager the block the call was
\* about and the blocks the call evicted from the quarantine, and for a
\* checked access its mode.
NoOp ==
  [op |-> "none", addr |-> 0, size |-> 0, marker |-> 0, id |-> 0,
   evicted |-> <<>>, mode |-> "ASAN_UNKNOWN_ACCESS"]

(***************************************************************************)
(* The process before a runtime is set up.  Threads are the threads of     *)
(* the process; a thread that is not in the error path is idle.            *)
(***************************************************************************)
Threads == {1, 2}

\* ::GetCurrentThreadId of the thread that runs the fixture and the heap.
GetCurrentThreadId == 1

\* An EXCEPTION_RECORD: its code and flags, NumberParameters, the live
\* entries of ExceptionInformation, ExceptionAddress (the code address),
\* and the record chained to it through ExceptionRecord, if any.
NoException ==
  [code |-> 0, flags |-> 0, nparams |-> 0, info |-> <<>>,
   address |-> 0, chain |-> <<>>]

\* An AsanErrorInfo, zero-initialized.
NoErrorInfo ==
  [error_type |-> "UNKNOWN_BAD_ACCESS", location |-> 0,
   access_mode |-> "ASAN_UNKNOWN_ACCESS", access_size |-> 0,
   free_stack |-> "NULL", free_tid |-> 0, heap_is_corrupt |-> FALSE,
   corrupt_ranges |-> "NULL"]

IdleThread ==
  [pc |-> "idle", fault |-> NoException, exception |-> NoException,
   error_info |-> NoErrorInfo, filter_info |-> NoErrorInfo,
   is_unhandled |-> FALSE,
   emit_asan_error |-> FALSE, in_OnError |-> FALSE]

NullRuntime ==
  [bound |-> FALSE,
   params_ |-> [check_heap_on_failure |-> FALSE,
                minidump_on_failure |-> FALSE,
                exit_on_failure |-> FALSE,
                disable_breakpad_reporting |-> FALSE],
   asan_error_callback_ |-> "null",
   heap_manager_ |-> "NULL"]

\* No call is in flight: no store to shadow_ is pending, no read has been
\* made without a lock, the page bits are as Shadow::Reset leaves them and
\* no thread is updating them.
NoProbe == [done |-> FALSE, addr |-> 0, result |-> FALSE]

IdleUpdate ==
  [pc |-> "idle", protect |-> FALSE, addr |-> 0, page |-> 0, page_end |-> 0,
   value |-> 0, old |-> [i \in 0 .. kPageBitsSize - 1 |-> 0]]

\* A ShadowWalker that has not been constructed.
NoWalker ==
  [state |-> "none", recursive_ |-> FALSE, lower_bound_ |-> 0,
   upper_bound_ |-> 0, cursor_ |-> 0, nesting_depth_ |-> 0,
   reported |-> <<>>, calls |-> 0, result |-> FALSE]

\* The fields of an AsanErrorInfo that tell of the corrupt ranges, zero,
\* and no record written to a buffer.
NoCorruptHeapInfo ==
  [state |-> "none", ranges |-> <<>>, buffer_size |-> 0,
   heap_is_corrupt |-> FALSE, corrupt_range_count |-> 0,
   corrupt_block_count |-> 0, corrupt_ranges_reported |-> 0,
   corrupt_ranges |-> <<>>, written |-> <<>>]

\* BlockHeapManager::Init: the process heap is the one heap; no walker.
ProcessHeap ==
  /\ heaps_ = {1}
  /\ heap_id = <<>>
  /\ walker = NoWalker
  /\ corrupt_heap_info = NoCorruptHeapInfo

NoRace ==
  /\ writes = <<>>
  /\ probe = NoProbe
  /\ page_bits_ = [i \in 0 .. kPageBitsSize - 1 |-> 0]
  /\ page_bits_lock_ = 0
  /\ updates = [t \in Threads |-> IdleUpdate]

NoRuntime ==
  /\ runtime_ = NullRuntime
  /\ breakpad_functions = [crash_for_exception_ptr |-> "NULL"]
  /\ host = [exports_CrashForException |-> FALSE, filter |-> "NULL",
             uef_installed_ |-> FALSE, previous_uef_ |-> "NULL"]
  /\ lock_ = 0
  /\ block_protect_lock = [owner |-> 0, depth |-> 0]
  /\ threads = [t \in Threads |-> IdleThread]
  /\ log = <<>>

(***************************************************************************)
(* The test fixture FakeAsanBlock, over one lifetime of the object.        *)
(***************************************************************************)
Init ==
  /\ shadow \in InitialShadows
  /\ before = shadow
  /\ last = NoOp
  /\ block_info = NoBlock
  /\ blocks = <<>>
  /\ quarantine = <<>>
  /\ errors = <<>>
  /\ parameters = [quarantine_size |-> 0]
  /\ NoRuntime
  /\ NoRace
  /\ ProcessHeap

InitializeBlock ==
  /\ block_info.state = "NONE"
  /\ \E info \in FittingBlocks :
       /\ shadow' = PoisonAllocatedBlock(shadow, info)
       /\ block_info' = info
       /\ last' = [NoOp EXCEPT !.op = "PoisonAllocatedBlock",
                               !.addr = info.block,
                               !.size = info.block_size]
  /\ before' = shadow
  /\ UNCHANGED <<blocks, quarantine, errors, parameters, rtvars, racevars, walkvars, heapvars>>

\* MarkBlockAsQuarantined without the stamp of the freeing thread.
M_MarkBlockAsQuarantinedNoFreeTid ==
  /\ block_info.state = "ALLOCATED_BLOCK"
  /\ shadow' = MarkAsFreed(shadow, BodyOf(block_info), block_info.body_size)
  /\ before' = shadow
  /\ block_info' = [block_info EXCEPT !.state = "QUARANTINED_BLOCK",
                                      !.free_stack = "SaveStackTrace"]
  /\ last' = [NoOp EXCEPT !.op = "MarkAsFreed",
                          !.addr = BodyOf(block_info),
                          !.size = block_info.body_size]
  /\ UNCHANGED <<blocks, quarantine, errors, parameters, rtvars, racevars, walkvars, heapvars>>

MarkBlockAsQuarantined ==
  /\ block_info.state = "ALLOCATED_BLOCK"
  /\ shadow' = MarkAsFreed(shadow, BodyOf(block_info), block_info.body_size)
  /\ before' = shadow
  /\ block_info' = [block_info EXCEPT !.state = "QUARANTINED_BLOCK",
                                      !.free_stack = "SaveStackTrace",
                                      !.free_tid = GetCurrentThreadId]
  /\ last' = [NoOp EXCEPT !.op = "MarkAsFreed",
                          !.addr = BodyOf(block_info),
                          !.size = block_info.body_size]
  /\ UNCHANGED <<blocks, quarantine, errors, parameters, rtvars, racevars, walkvars, heapvars>>

DestroyFakeAsanBlock ==
  /\ block_info.state \in {"ALLOCATED_BLOCK", "QUARANTINED_BLOCK"}
  /\ shadow' = Unpoison(shadow, block_info.block, block_info.block_size)
  /\ before' = shadow
  /\ block_info' = [block_info EXCEPT !.state = "DESTROYED"]
  /\ last' = [NoOp EXCEPT !.op = "Unpoison",
                          !.addr = block_info.block,
                          !.size = block_info.block_size]
  /\ UNCHANGED <<blocks, quarantine, errors, parameters, rtvars, racevars, walkvars, heapvars>>

Next ==
  \/ InitializeBlock
  \/ MarkBlockAsQuarantined
  \/ DestroyFakeAsanBlock

Spec == Init /\ [][Next]_vars

(***************************************************************************)
(* The report of a bad access.  ErrorInfoGetBadAccessInformation finds     *)
(* the block of the location in the shadow and reads its header, one of    *)
(* hdrs: a block that is no longer ALLOCATED gives USE_AFTER_FREE with     *)
(* the free stack and free thread id of the header, an allocated one is    *)
(* classified by where the location lies relative to its body.  A failed   *)
(* lookup leaves the error as it was.                                      *)
(***************************************************************************)
GetBadAccessKind(s, hdrs, found, error_info) ==
  LET ids == {i \in DOMAIN hdrs :
                /\ hdrs[i].block = found.info.block
                /\ hdrs[i].state \in {"ALLOCATED_BLOCK", "QUARANTINED_BLOCK"}}
      header == hdrs[CHOOSE i \in ids : TRUE]
      body == found.info.block + found.info.header_size
      body_size == found.info.block_size - found.info.header_size
                     - found.info.trailer_size
  IN  IF ~found.ok \/ ids = {} THEN error_info
      ELSE IF header.state # "ALLOCATED_BLOCK"
      THEN [error_info EXCEPT !.error_type = "USE_AFTER_FREE",
                              !.free_stack = header.free_stack,
                              !.free_tid = header.free_tid]
      ELSE IF error_info.location < body
      THEN [error_info EXCEPT !.error_type = "HEAP_BUFFER_UNDERFLOW"]
      ELSE IF error_info.location >= body + body_size
      THEN [error_info EXCEPT !.error_type = "HEAP_BUFFER_OVERFLOW"]
      ELSE IF GetShadowMarkerForAddress(s, error_info.location)
                = kHeapFreedMarker
      THEN [error_info EXCEPT !.error_type = "USE_AFTER_FREE"]
      ELSE error_info

ErrorInfoGetBadAccessInformation(s, hdrs, error_info) ==
  GetBadAccessKind(s, hdrs, BlockInfoFromShadow(s, error_info.location),
                   error_info)

\* AsanRuntime::GetBadAccessInformation.  Bit 31 of a location is set when
\* the location is above the memory the shadow covers.
kAddressUpperBound == kShadowSize * kShadowRatio

GetBadAccessInformation(s, hdrs, error_info) ==
  IF \/ error_info.location >= kAddressUpperBound
     \/ GetShadowMarkerForAddress(s, error_info.location) = kAsanMemoryMarker
  THEN [error_info EXCEPT !.error_type = "WILD_ACCESS"]
  ELSE IF GetShadowMarkerForAddress(s, error_info.location)
            = kInvalidAddressMarker
  THEN [error_info EXCEPT !.error_type = "INVALID_ADDRESS"]
  ELSE ErrorInfoGetBadAccessInformation(s, hdrs, error_info)

(***************************************************************************)
(* An instrumented access to the fixture's block or next to it: the probe  *)
(* tests the first byte of the access and reports a byte that is not       *)
(* accessible to the error callback, which keeps the report in `errors`.   *)
(***************************************************************************)
AllAddresses == 0 .. kShadowSize * kShadowRatio - 1

AccessSizes == {1, 2, 4, 8}

CheckAccess ==
  /\ last.op # "CheckAccess"
  /\ block_info.state \in {"ALLOCATED_BLOCK", "QUARANTINED_BLOCK"}
  /\ \E location \in AllAddresses, access_size \in AccessSizes,
        access_mode \in {"ASAN_READ_ACCESS", "ASAN_WRITE_ACCESS"} :
       /\ location + kShadowRatio >= block_info.block
       /\ location < block_info.block + block_info.block_size + kShadowRatio
       /\ last' = [NoOp EXCEPT !.op = "CheckAccess", !.addr = location,
                               !.size = access_size, !.mode = access_mode]
       /\ errors' =
            IF IsAccessible(shadow, location) THEN errors
            ELSE Append(errors,
                   GetBadAccessInformation(shadow, <<block_info>>,
                     [NoErrorInfo EXCEPT !.location = location,
                                         !.access_mode = access_mode,
                                         !.access_size = access_size]))
  /\ before' = shadow
  /\ UNCHANGED <<shadow, block_info, blocks, quarantine, parameters, rtvars, racevars, walkvars, heapvars>>

\* The locations outside the memory a program owns: those below the arena
\* (the first kAddressLowerBound bytes, shadow_ and page_bits_), and above
\* kAddressUpperBound the first byte of every granule and the last byte of
\* the address space.
WildAddresses ==
  (0 .. kArenaGranule * kShadowRatio - 1)
    \cup {a \in kAddressUpperBound .. 2 * kAddressUpperBound - 1 :
            a % kShadowRatio = 0 \/ a = 2 * kAddressUpperBound - 1}

\* GetBadAccessInformation called for an access of one byte to such a
\* location, whatever the fixture's block is.
CheckWildAccess ==
  /\ last.op # "CheckAccess"
  /\ \E location \in WildAddresses,
        access_mode \in {"ASAN_READ_ACCESS", "ASAN_WRITE_ACCESS"} :
       /\ last' = [NoOp EXCEPT !.op = "GetBadAccessInformation",
                               !.addr = location, !.size = 1,
                               !.mode = access_mode]
       /\ errors' =
            Append(errors,
              GetBadAccessInformation(shadow, <<block_info>>,
                [NoErrorInfo EXCEPT !.location = location,
                                    !.access_mode = access_mode,
                                    !.access_size = 1]))
  /\ before' = shadow
  /\ UNCHANGED <<shadow, block_info, blocks, quarantine, parameters, rtvars, racevars, walkvars, heapvars>>

\* The fixture with a block of a small body at the start of the arena, and
\* one access to it while it is allocated or once it is quarantined, or
\* one access outside the arena at any time.
ProbeNext ==
  \/ /\ last.op # "GetBadAccessInformation"
     /\ InitializeBlock
     /\ block_info'.block = kArenaGranule * kShadowRatio
     /\ block_info'.body_size <= kShadowRatio + 2
  \/ /\ last.op \notin {"CheckAccess", "GetBadAccessInformation"}
     /\ MarkBlockAsQuarantined
  \/ /\ last.op # "GetBadAccessInformation"
     /\ CheckAccess
  \/ /\ last.op # "GetBadAccessInformation"
     /\ CheckWildAccess

ProbeSpec == Init /\ [][ProbeNext]_vars

(***************************************************************************)
(* The shadow's primitives called directly, once, with any arguments       *)
(* their DCHECKs admit.                                                    *)
(***************************************************************************)
RawMarkers == {kUserRedzoneMarker, kAsanReservedMarker, kHeapFreedMarker}

RawUnpoison ==
  /\ last.op = "none"
  /\ \E addr \in AllAddresses, size \in 0 .. kShadowSize * kShadowRatio :
       /\ addr % 8 = 0
       /\ kShadowSize > addr \div 8 + size \div 8
       /\ shadow' = Unpoison(shadow, addr, size)
       /\ last' = [NoOp EXCEPT !.op = "Unpoison", !.addr = addr,
                               !.size = size]
  /\ before' = shadow
  /\ UNCHANGED <<block_info, blocks, quarantine, errors, parameters, rtvars, racevars, walkvars, heapvars>>

RawPoison ==
  /\ last.op = "none"
  /\ \E addr \in AllAddresses, size \in 0 .. kShadowSize * kShadowRatio,
        marker \in RawMarkers :
       /\ (addr + size) % 8 = 0
       /\ kShadowSize > (addr + 7) \div 8 + size \div 8
       /\ shadow' = Poison(shadow, addr, size, marker)
       /\ last' = [NoOp EXCEPT !.op = "Poison", !.addr = addr,
                               !.size = size, !.marker = marker]
  /\ before' = shadow
  /\ UNCHANGED <<block_info, blocks, quarantine, errors, parameters, rtvars, racevars, walkvars, heapvars>>

RawNext ==
  \/ RawUnpoison
  \/ RawPoison

RawSpec == Init /\ [][RawNext]_vars

(***************************************************************************)
(* The block heap manager: Allocate and Free of guarded blocks of one      *)
(* heap, with the quarantine the heap uses.  The manager alone writes the  *)
(* headers here, so every checksum it verifies is valid and the checks of  *)
(* Free and of the eviction reduce to the test of the header's state.      *)
(***************************************************************************)
Shards == 0 .. ShardingFactor - 1

AllocSizes == {0, 3, kShadowRatio + 1}

QuarantineSizes == {0, 5 * kShadowRatio, 11 * kShadowRatio}

HeapArena ==
  kArenaGranule * kShadowRatio ..
    (kArenaGranule + HeapGranules) * kShadowRatio - 1

IsLive(b) == b.state \in {"ALLOCATED_BLOCK", "QUARANTINED_BLOCK"}

\* BlockPlanLayout for the alignment kShadowRatio and no minimal redzones,
\* and BlockInitialize at block: the header, the body, and a trailer
\* padded so that the block size is a multiple of kShadowRatio.
BlockPlanLayout(block, bytes) ==
  LET block_size == ((sizeof_BlockHeader + bytes + sizeof_BlockTrailer
                        + kShadowRatio - 1) \div kShadowRatio) * kShadowRatio
  IN  [block |-> block, block_size |-> block_size,
       header_size |-> sizeof_BlockHeader, body_size |-> bytes,
       trailer_size |-> block_size - sizeof_BlockHeader - bytes,
       is_nested |-> FALSE, state |-> "ALLOCATED_BLOCK",
       free_stack |-> "NULL", free_tid |-> 0]

\* The blocks the underlying heap can give an allocation of `bytes`: of
\* the blocks of the arena that no live block overlaps, the lowest and the
\* highest.
FreeLayouts(bs, bytes) ==
  LET free == {info \in {BlockPlanLayout(g * kShadowRatio, bytes) :
                           g \in kArenaGranule .. kShadowSize - 1} :
                 /\ Envelope(info) \subseteq HeapArena
                 /\ \A i \in DOMAIN bs :
                      IsLive(bs[i]) =>
                        Envelope(info) \cap Envelope(bs[i]) = {}}
  IN  {info \in free :
         \/ \A other \in free : info.block <= other.block
         \/ \A other \in free : info.block >= other.block}

HeapInit ==
  /\ shadow = SetUp(ResetShadow)
  /\ before = shadow
  /\ last = NoOp
  /\ block_info = NoBlock
  /\ blocks = <<>>
  /\ quarantine = [sh \in Shards |-> <<>>]
  /\ errors = <<>>
  /\ parameters \in {[quarantine_size |-> q] : q \in QuarantineSizes}
  /\ NoRuntime
  /\ NoRace
  /\ ProcessHeap

\* BlockHeapManager::Allocate: plan the envelope, take the memory from the
\* underlying heap, initialize the header and poison the block.
Allocate ==
  /\ Len(blocks) < MaxAllocs
  /\ \E bytes \in AllocSizes :
       \E info \in FreeLayouts(blocks, bytes) :
         /\ shadow' = PoisonAllocatedBlock(shadow, info)
         /\ blocks' = Append(blocks, info)
         /\ last' = [NoOp EXCEPT !.op = "Allocate", !.addr = BodyOf(info),
                                 !.size = bytes, !.id = Len(blocks) + 1]
  /\ before' = shadow
  /\ UNCHANGED <<block_info, quarantine, errors, parameters, rtvars, racevars, walkvars>>

\* The total size of the blocks a quarantine holds.
RECURSIVE SumSizes(_, _)
SumSizes(bs, ids) ==
  IF ids = <<>> THEN 0
  ELSE bs[Head(ids)].block_size + SumSizes(bs, Tail(ids))

RECURSIVE QuarantineSize(_, _, _)
QuarantineSize(bs, q, sh) ==
  IF sh \notin DOMAIN q THEN 0
  ELSE SumSizes(bs, q[sh]) + QuarantineSize(bs, q, sh + 1)

\* TrimQuarantine with an `if` for its `while`: at most one block is popped.
M_TrimQuarantineOnce(bs, q, evicted, max) ==
  IF QuarantineSize(bs, q, 0) <= max
  THEN {[quarantine |-> q, evicted |-> evicted]}
  ELSE {[quarantine |-> [q EXCEPT ![sh] = Tail(q[sh])],
         evicted |-> Append(evicted, Head(q[sh]))] :
          sh \in {x \in Shards : q[x] # <<>>}}

\* BlockHeapManager::TrimQuarantine: while the quarantine is over
\* parameters_.quarantine_size, pop the oldest block of some non-empty
\* shard.  The result is the set of the possible outcomes, each
\* [quarantine |-> what is left, evicted |-> the blocks popped, in order].
RECURSIVE TrimQuarantine(_, _, _, _)
TrimQuarantine(bs, q, evicted, max) ==
  IF QuarantineSize(bs, q, 0) <= max
  THEN {[quarantine |-> q, evicted |-> evicted]}
  ELSE UNION {TrimQuarantine(bs, [q EXCEPT ![sh] = Tail(q[sh])],
                             Append(evicted, Head(q[sh])), max) :
                sh \in {x \in Shards : q[x] # <<>>}}

\* BlockHeapManager::FreePristineBlock on each evicted block, in order:
\* the header becomes FREED, the shadow of the whole block is unpoisoned
\* and the memory goes back to the underlying heap.
RECURSIVE FreePristineBlocks(_, _, _)
FreePristineBlocks(s, bs, ids) ==
  IF ids = <<>> THEN [shadow |-> s, blocks |-> bs]
  ELSE LET b == bs[Head(ids)]
       IN  FreePristineBlocks(
             Unpoison(s, b.block, b.block_size),
             [bs EXCEPT ![Head(ids)].state = "FREED_BLOCK"],
             Tail(ids))

\* Free without the test of the header's state.
M_FreeNoStateCheck(id) ==
  /\ IsLive(blocks[id])
  /\ before' = shadow
  /\ \E sh \in Shards :
       LET s1 == MarkAsFreed(shadow, BodyOf(blocks[id]), blocks[id].body_size)
           bs1 == [blocks EXCEPT ![id].state = "QUARANTINED_BLOCK",
                                    ![id].free_stack = "SaveStackTrace",
                                    ![id].free_tid = GetCurrentThreadId]
           q1 == [quarantine EXCEPT ![sh] = Append(@, id)]
       IN  \E out \in TrimQuarantine(bs1, q1, <<>>,
                                     parameters.quarantine_size) :
             LET r == FreePristineBlocks(s1, bs1, out.evicted)
             IN  /\ shadow' = r.shadow
                 /\ blocks' = r.blocks
                 /\ quarantine' = out.quarantine
                 /\ last' = [NoOp EXCEPT !.op = "Free",
                                         !.addr = BodyOf(blocks[id]),
                                         !.id = id,
                                         !.evicted = out.evicted]
  /\ UNCHANGED <<errors, block_info, parameters, rtvars, racevars, walkvars>>

\* BlockHeapManager::Free of the body of block id, a block the manager
\* allocated and has not yet released.
Free(id) ==
  /\ IsLive(blocks[id])
  /\ before' = shadow
  /\ IF blocks[id].state # "ALLOCATED_BLOCK"
     THEN \* The header says QUARANTINED: report, and leave the block alone.
          /\ Len(errors) < MaxErrors
          /\ errors' = Append(errors,
                 [NoErrorInfo EXCEPT !.error_type = "DOUBLE_FREE",
                                     !.location = BodyOf(blocks[id]),
                                     !.free_stack = blocks[id].free_stack,
                                     !.free_tid = blocks[id].free_tid])
          /\ last' = [NoOp EXCEPT !.op = "Free",
                                  !.addr = BodyOf(blocks[id]), !.id = id]
          /\ UNCHANGED <<shadow, blocks, quarantine>>
     ELSE \E sh \in Shards :
            LET s1 == MarkAsFreed(shadow, BodyOf(blocks[id]),
                                  blocks[id].body_size)
                bs1 == [blocks EXCEPT ![id].state = "QUARANTINED_BLOCK",
                                    ![id].free_stack = "SaveStackTrace",
                                    ![id].free_tid = GetCurrentThreadId]
                q1 == [quarantine EXCEPT ![sh] = Append(@, id)]
            IN  \E out \in TrimQuarantine(bs1, q1, <<>>,
                                          parameters.quarantine_size) :
                  LET r == FreePristineBlocks(s1, bs1, out.evicted)
                  IN  /\ shadow' = r.shadow
                      /\ blocks' = r.blocks
                      /\ quarantine' = out.quarantine
                      /\ last' = [NoOp EXCEPT !.op = "Free",
                                              !.addr = BodyOf(blocks[id]),
                                              !.id = id,
                                              !.evicted = out.evicted]
                      /\ UNCHANGED errors
  /\ UNCHANGED <<block_info, parameters, rtvars, racevars, walkvars>>

(***************************************************************************)
(* The heaps of the manager.  heaps_ maps every heap to the quarantine it  *)
(* uses, and the heaps here share one quarantine; a block carries the id   *)
(* of its heap in its trailer.                                             *)
(***************************************************************************)
HeapIds == {1, 2}

InQuarantine(q, id) ==
  \E sh \in DOMAIN q : \E i \in DOMAIN q[sh] : q[sh][i] = id

\* The blocks of heap h a quarantine holds, shard after shard, oldest first.
RECURSIVE BlocksOfHeap(_, _, _)
BlocksOfHeap(q, h, sh) ==
  IF sh \notin DOMAIN q THEN <<>>
  ELSE SelectSeq(q[sh], LAMBDA id : heap_id[id] = h)
         \o BlocksOfHeap(q, h, sh + 1)

\* BlockHeapManager::CreateHeap: a new heap, which uses the shared
\* quarantine.
CreateHeap ==
  /\ \E h \in HeapIds \ heaps_ :
       /\ \A id \in DOMAIN heap_id : heap_id[id] # h
       /\ heaps_' = heaps_ \cup {h}
       /\ last' = [NoOp EXCEPT !.op = "CreateHeap", !.id = h]
  /\ before' = shadow
  /\ UNCHANGED <<shadow, block_info, blocks, quarantine, errors, parameters,
                 rtvars, racevars, walkvars, heap_id>>

\* BlockHeapManager::Allocate(heap_id, bytes).
AllocateFrom(h) ==
  /\ h \in heaps_
  /\ Allocate
  /\ heap_id' = Append(heap_id, h)
  /\ UNCHANGED heaps_

\* BlockHeapManager::Free(heap_id, alloc) of the body of block id.
FreeFrom(h, id) ==
  /\ h \in heaps_
  /\ heap_id[id] = h
  /\ Free(id)
  /\ UNCHANGED heapvars

\* DestroyHeap that flushes the whole quarantine.
M_DestroyHeapFlushAll(h) ==
  /\ h \in heaps_
  /\ LET flushed == BlocksOfHeap(quarantine, 1, 0) \o BlocksOfHeap(quarantine, 2, 0)
         r == FreePristineBlocks(shadow, blocks, flushed)
     IN  /\ shadow' = r.shadow
         /\ blocks' = r.blocks
         /\ quarantine' = [sh \in DOMAIN quarantine |-> <<>>]
         /\ last' = [NoOp EXCEPT !.op = "DestroyHeap", !.id = h,
                                 !.evicted = flushed]
  /\ heaps_' = heaps_ \ {h}
  /\ before' = shadow
  /\ UNCHANGED <<block_info, errors, parameters, rtvars, racevars, walkvars, heap_id>>

\* BlockHeapManager::DestroyHeap(heap_id), DestroyHeapUnlocked: the blocks
\* of the heap that are in its quarantine are taken out of it and freed,
\* the blocks of the other heaps stay, and the heap leaves heaps_.
DestroyHeap(h) ==
  /\ h \in heaps_
  /\ LET flushed == BlocksOfHeap(quarantine, h, 0)
         r == FreePristineBlocks(shadow, blocks, flushed)
     IN  /\ shadow' = r.shadow
         /\ blocks' = r.blocks
         /\ quarantine' =
              [sh \in DOMAIN quarantine |->
                 SelectSeq(quarantine[sh], LAMBDA id : heap_id[id] # h)]
         /\ last' = [NoOp EXCEPT !.op = "DestroyHeap", !.id = h,
                                 !.evicted = flushed]
  /\ heaps_' = heaps_ \ {h}
  /\ before' = shadow
  /\ UNCHANGED <<block_info, errors, parameters, rtvars, racevars, walkvars, heap_id>>

\* The manager with the process heap alone.
HeapNext ==
  \/ AllocateFrom(1)
  \/ \E id \in DOMAIN blocks : FreeFrom(1, id)

HeapSpec == HeapInit /\ [][HeapNext]_vars

ManagerNext ==
  \/ CreateHeap
  \/ \E h \in HeapIds :
       \/ /\ AllocateFrom(h)
          /\ last'.size \in 1 .. kShadowRatio - 1
       \/ \E id \in DOMAIN blocks : FreeFrom(h, id)
       \/ DestroyHeap(h)

\* The manager with a quarantine large enough to hold what is freed, and
\* allocations of a part of a granule.
ManagerInit ==
  /\ HeapInit
  /\ \A q \in QuarantineSizes : q <= parameters.quarantine_size

ManagerSpec == ManagerInit /\ [][ManagerNext]_vars

(***************************************************************************)
(* The runtime's error path (asan_runtime.cc).  Exception codes are the    *)
(* NTSTATUS values read as signed 32-bit integers.  A pointer to the       *)
(* AsanErrorInfo of thread t, or to its context, is the number t.          *)
(***************************************************************************)
kAsanException == -427074864
EXCEPTION_ACCESS_VIOLATION == -1073741819
EXCEPTION_ARRAY_BOUNDS_EXCEEDED == -1073741684
EXCEPTION_BREAKPOINT == -2147483645

\* ShadowMarkerHelper::IsActiveBlock.
IsActiveBlock(marker) ==
  \/ marker = kHeapLeftPaddingMarker
  \/ marker = kHeapRightPaddingMarker
  \/ marker = kHeapFreedMarker
  \/ IsActiveBlockStart(marker)
  \/ IsActiveBlockEnd(marker)

\* Shadow::TearDown.
TearDown(s) ==
  Unpoison(Unpoison(Unpoison(s, kShadowAddress, kShadowSize),
                    0, kAddressLowerBound),
           kPageBitsAddress, kPageBitsSize)

\* A line of the logger's output or a call that leaves the runtime, made by
\* thread tid while it handled an error of type error_type.
Event(tid, ev, error_info) ==
  [tid |-> tid, ev |-> ev, error_type |-> error_info.error_type]

\* RaiseFilteredException: the record ::RaiseException builds.
RaiseFilteredException(code, flags, num_args, args) ==
  [code |-> kAsanException, flags |-> 0, nparams |-> 4,
   info |-> <<code, flags, num_args, args>>,
   address |-> 0, chain |-> <<>>]

\* The test ExceptionFilterImpl makes for an exception the runtime raised.
M_IsAsanExceptionWrappedCode(exception) ==
  exception.code = EXCEPTION_ARRAY_BOUNDS_EXCEEDED

IsAsanException(exception) ==
  exception.code = kAsanException

\* ExceptionFilterImpl rebuilding the exception a sentinel wraps: the first
\* nargs entries of ExceptionInformation are overwritten, the others stay.
\* The unwrapping that restores the code, the flags and the count, and
\* leaves the arguments of the sentinel in place.
M_UnwrapAsanExceptionKeepArgs(exception) ==
  [exception EXCEPT
     !.code = exception.info[1], !.flags = exception.info[2],
     !.nparams = exception.info[3]]

UnwrapAsanException(exception) ==
  LET args == exception.info
      nargs == args[3]
      orig_args == args[4]
  IN  [exception EXCEPT
         !.code = args[1], !.flags = args[2], !.nparams = nargs,
         !.info = [i \in 1 .. (IF nargs > 4 THEN nargs ELSE 4) |->
                     IF i <= nargs THEN orig_args[i] ELSE args[i]]]

\* InitializeExceptionRecord, and the chaining of the old record to it.
\* Eip of the context is the code address of the exception.
InitializeExceptionRecord(error_info, tid, old_record) ==
  [code |-> EXCEPTION_ARRAY_BOUNDS_EXCEEDED, flags |-> 0, nparams |-> 2,
   info |-> <<tid, tid>>, address |-> old_record.address,
   chain |-> <<old_record>>]

\* The access violations ExceptionFilterImpl takes over.
M_IsRedzoneAccessViolationAnyFlag(s, exception) ==
  /\ exception.code = EXCEPTION_ACCESS_VIOLATION
  /\ exception.nparams >= 2
  /\ IsRedzone(GetShadowMarkerForAddress(s, exception.info[2]))
  /\ IsActiveBlock(GetShadowMarkerForAddress(s, exception.info[2]))
  /\ BlockInfoFromShadow(s, exception.info[2]).ok

IsRedzoneAccessViolation(s, exception) ==
  /\ exception.code = EXCEPTION_ACCESS_VIOLATION
  /\ exception.nparams >= 2
  /\ exception.info[1] <= 1
  /\ IsRedzone(GetShadowMarkerForAddress(s, exception.info[2]))
  /\ IsActiveBlock(GetShadowMarkerForAddress(s, exception.info[2]))
  /\ BlockInfoFromShadow(s, exception.info[2]).ok

\* The heap checker run on a heap that holds a corrupt range with the check
\* disabled: the mutation of CHECK_HEAP_CORRUPTION.
M_CheckHeapCorruptionAlways(params, tid, error_info, corrupt) ==
  [error_info |->
     [error_info EXCEPT
        !.heap_is_corrupt = corrupt,
        !.corrupt_ranges = IF corrupt THEN "SAFE_ALLOCA" ELSE @],
   events |-> <<Event(tid, "IsHeapCorrupt", error_info)>>
                \o (IF corrupt
                    THEN <<Event(tid, "WriteCorruptHeapInfo", error_info)>>
                    ELSE <<>>)]

\* CHECK_HEAP_CORRUPTION that leaves heap_is_corrupt clear.
M_CheckHeapCorruptionNoFlag(params, tid, error_info, corrupt) ==
  [error_info |-> error_info,
   events |-> IF params.check_heap_on_failure
              THEN <<Event(tid, "IsHeapCorrupt", error_info)>>
                     \o (IF corrupt
                         THEN <<Event(tid, "WriteCorruptHeapInfo",
                                      error_info)>>
                         ELSE <<>>)
              ELSE <<>>]

\* CHECK_HEAP_CORRUPTION: corrupt tells whether the heap holds a corrupt
\* range, which the heap checker finds if it is run.  WriteCorruptHeapInfo
\* points corrupt_ranges at the buffer SAFE_ALLOCA made when there is one.
CheckHeapCorruption(params, tid, error_info, corrupt) ==
  [error_info |->
     [error_info EXCEPT
        !.heap_is_corrupt = params.check_heap_on_failure /\ corrupt,
        !.corrupt_ranges = IF params.check_heap_on_failure /\ corrupt
                           THEN "SAFE_ALLOCA" ELSE @],
   events |-> IF params.check_heap_on_failure
              THEN <<Event(tid, "IsHeapCorrupt", error_info)>>
                     \o (IF corrupt
                         THEN <<Event(tid, "WriteCorruptHeapInfo",
                                      error_info)>>
                         ELSE <<>>)
              ELSE <<>>]

\* OnErrorImpl with the exit before the report.
M_OnErrorImplExitFirst(params, tid, error_info) ==
  (IF params.exit_on_failure
   THEN <<Event(tid, "Stop", error_info), Event(tid, "exit", error_info)>>
   ELSE <<Event(tid, "LogAsanErrorInfo", error_info)>>
          \o (IF params.minidump_on_failure
              THEN <<Event(tid, "SaveMiniDump", error_info)>>
              ELSE <<>>))

\* AsanRuntime::OnErrorImpl: what it does, in order.
OnErrorImpl(params, tid, error_info) ==
  <<Event(tid, "LogAsanErrorInfo", error_info)>>
    \o (IF params.minidump_on_failure
        THEN <<Event(tid, "SaveMiniDump", error_info)>>
        ELSE <<>>)
    \o (IF params.exit_on_failure
        THEN <<Event(tid, "Stop", error_info), Event(tid, "exit", error_info)>>
        ELSE <<>>)

\* ExceptionFilterImpl once it holds both locks.  rt is the bound runtime,
\* bp the static breakpad_functions, uef the static previous_uef_.
ExceptionFilterImpl(rt, bp, uef, s, hdrs, tid, is_unhandled, exception, corrupt) ==
  LET heap_info == [NoErrorInfo EXCEPT !.location = exception.address,
                                       !.error_type = "CORRUPT_HEAP"]
      \* Lines 894-926, with the error the lines above them found.
      Emit(original, taken_over, error_info, checks) ==
        LET emit_asan_error == taken_over \/ error_info.heap_is_corrupt
            exits == emit_asan_error /\ rt.params_.exit_on_failure
            resolved == bp.crash_for_exception_ptr # "NULL"
        IN  [error_info |-> error_info,
             emit_asan_error |-> emit_asan_error,
             exception |->
               IF emit_asan_error /\ ~exits
               THEN InitializeExceptionRecord(error_info, tid, original)
               ELSE original,
             events |->
               <<Event(tid, "Handling an exception", error_info)>>
                 \o (IF taken_over
                     THEN <<Event(tid, "Caught an invalid access",
                                  error_info)>>
                     ELSE <<>>)
                 \o checks
                 \o (IF emit_asan_error
                     THEN OnErrorImpl(rt.params_, tid, error_info)
                     ELSE <<>>)
                 \o (IF exits THEN <<>>
                     ELSE (IF emit_asan_error /\ resolved
                           THEN <<Event(tid, "SetCrashKeys", error_info)>>
                           ELSE <<>>)
                          \o (IF is_unhandled /\ uef # "NULL"
                              THEN <<Event(tid, "previous_uef_", error_info)>>
                              ELSE IF emit_asan_error /\ resolved
                              THEN <<Event(tid, "crash_for_exception_ptr",
                                           error_info)>>
                              ELSE <<Event(tid, "EXCEPTION_CONTINUE_SEARCH",
                                           error_info)>>))]
      \* Lines 837-892, knowing whether the access violation is taken over.
      \* The error the heap check leaves and what the check logged go on.
      Check(taken_over, checked) ==
        Emit(exception, taken_over, checked.error_info, checked.events)
      Process(taken_over) ==
        Check(taken_over,
             CheckHeapCorruption(rt.params_, tid,
               IF taken_over
               THEN ErrorInfoGetBadAccessInformation(s, hdrs,
                      [heap_info EXCEPT
                         !.location = exception.info[2],
                         !.access_size = 1,
                         !.access_mode = IF exception.info[1] = 0
                                         THEN "ASAN_READ_ACCESS"
                                         ELSE "ASAN_WRITE_ACCESS"])
               ELSE heap_info,
               corrupt))
  IN  IF IsAsanException(exception)
      THEN Emit(UnwrapAsanException(exception), FALSE, NoErrorInfo, <<>>)
      ELSE IF rt.bound
      THEN Process(IsRedzoneAccessViolation(s, exception))
      ELSE Emit(exception, FALSE, NoErrorInfo, <<>>)

\* The option combinations a runtime is set up with.
AsanParameters ==
  [check_heap_on_failure : BOOLEAN, minidump_on_failure : BOOLEAN,
   exit_on_failure : BOOLEAN, disable_breakpad_reporting : BOOLEAN]

\* GetBreakpadFunctions: the structure is cleared, then filled from the
\* exports of the executable.
GetBreakpadFunctions(exports_CrashForException) ==
  [crash_for_exception_ptr |->
     IF exports_CrashForException THEN "CrashForException" ELSE "NULL"]

\* exit() was called, or an exception went unhandled or to the crash
\* reporter: the process is gone.
Terminated == \E t \in Threads : threads[t].pc \in {"exited", "crashed"}

\* The process a runtime is loaded into: the executable exports
\* CrashForException or not, and has a top-level exception filter of its
\* own or not.
RuntimeInit ==
  /\ shadow = ResetShadow
  /\ before = shadow
  /\ last = NoOp
  /\ block_info = NoBlock
  /\ blocks = <<>>
  /\ quarantine = <<>>
  /\ errors = <<>>
  /\ parameters = [quarantine_size |-> 0]
  /\ runtime_ = NullRuntime
  /\ breakpad_functions = [crash_for_exception_ptr |-> "NULL"]
  /\ \E exports \in BOOLEAN, filter \in {"NULL", "HostFilter"} :
       host = [exports_CrashForException |-> exports, filter |-> filter,
               uef_installed_ |-> FALSE, previous_uef_ |-> "NULL"]
  /\ lock_ = 0
  /\ block_protect_lock = [owner |-> 0, depth |-> 0]
  /\ threads = [t \in Threads |-> IdleThread]
  /\ log = <<>>
  /\ NoRace
  /\ ProcessHeap

\* AsanRuntime::SetUp installing the unhandled exception filter on every
\* call.
M_AsanRuntime_SetUpReinstall ==
  /\ ~runtime_.bound
  /\ lock_ = 0
  /\ ~Terminated
  /\ \E params \in AsanParameters :
       /\ runtime_' = [bound |-> TRUE, params_ |-> params,
                       asan_error_callback_ |-> "DefaultErrorHandler",
                       heap_manager_ |-> "initialized"]
       /\ breakpad_functions' =
            IF params.disable_breakpad_reporting THEN breakpad_functions
            ELSE GetBreakpadFunctions(host.exports_CrashForException)
  /\ host' = [host EXCEPT !.uef_installed_ = TRUE,
                          !.previous_uef_ = host.filter,
                          !.filter = "UnhandledExceptionFilter"]
  /\ shadow' = SetUp(shadow)
  /\ before' = shadow
  /\ UNCHANGED <<racevars, walkvars, heapvars, last, block_info, blocks, quarantine, errors,
                 parameters,
                 lock_, block_protect_lock, threads, log>>

\* AsanRuntime::SetUp with an option string that parses to params.
AsanRuntime_SetUp ==
  /\ ~runtime_.bound
  /\ lock_ = 0
  /\ ~Terminated
  /\ \E params \in AsanParameters :
       LET use_breakpad ==
             /\ ~params.disable_breakpad_reporting
             /\ GetBreakpadFunctions(host.exports_CrashForException)
                  .crash_for_exception_ptr # "NULL"
       IN  /\ runtime_' =
                [bound |-> TRUE, params_ |-> params,
                 asan_error_callback_ |->
                   IF use_breakpad THEN "BreakpadErrorHandler"
                   ELSE "DefaultErrorHandler",
                 heap_manager_ |-> "initialized"]
           /\ breakpad_functions' =
                IF params.disable_breakpad_reporting THEN breakpad_functions
                ELSE GetBreakpadFunctions(host.exports_CrashForException)
  /\ host' = [host EXCEPT
                !.uef_installed_ = TRUE,
                !.previous_uef_ = IF host.uef_installed_ THEN @
                                  ELSE host.filter,
                !.filter = IF host.uef_installed_ THEN @
                           ELSE "UnhandledExceptionFilter"]
  /\ shadow' = SetUp(shadow)
  /\ before' = shadow
  /\ UNCHANGED <<racevars, walkvars, heapvars, last, block_info, blocks, quarantine, errors,
                 parameters,
                 lock_, block_protect_lock, threads, log>>

\* AsanRuntime::SetUp with an option string that ParseAsanParameters
\* rejects: the function returns at line 424, with the heap manager
\* created, and params_ as the parser left them.
AsanRuntime_SetUpParseFailure ==
  /\ ~runtime_.bound
  /\ lock_ = 0
  /\ ~Terminated
  /\ \E params \in AsanParameters :
       runtime_' = [NullRuntime EXCEPT !.bound = TRUE,
                                      !.params_ = params,
                                      !.heap_manager_ = "created"]
  /\ shadow' = SetUp(shadow)
  /\ before' = shadow
  /\ UNCHANGED <<racevars, walkvars, heapvars, last, block_info, blocks, quarantine, errors,
                 parameters, breakpad_functions, host,
                 lock_, block_protect_lock, threads, log>>

\* AsanRuntime::TearDown, once the threads have left the error path.  The
\* logger goes with the runtime.
AsanRuntime_TearDown ==
  /\ runtime_.bound
  /\ lock_ = 0
  /\ \A t \in Threads : threads[t].pc \in {"idle", "done"}
  /\ runtime_' = NullRuntime
  /\ shadow' = TearDown(shadow)
  /\ before' = shadow
  /\ threads' = [t \in Threads |-> IdleThread]
  /\ log' = <<>>
  /\ UNCHANGED <<racevars, walkvars, heapvars, last, block_info, blocks, quarantine, errors,
                 parameters,
                 breakpad_functions, host, lock_, block_protect_lock>>

\* AsanRuntime::SetErrorCallBack called by the embedder (asan_SetCallBack).
SetErrorCallBack ==
  /\ runtime_.bound
  /\ runtime_.asan_error_callback_ # "AsanCallback"
  /\ \A t \in Threads : threads[t].pc = "idle"
  /\ runtime_' = [runtime_ EXCEPT !.asan_error_callback_ = "AsanCallback"]
  /\ UNCHANGED <<memvars, racevars, walkvars, heapvars, breakpad_functions, host, lock_,
                 block_protect_lock, threads, log>>

\* The addresses the threads touch: the granule below the block of the
\* runtime specifications (a block of six granules at the start of the
\* arena), the block, and the granule above it; the first byte of each
\* granule, and a byte past the end of the body in the body's last granule.
FaultAddresses ==
  {a \in AllAddresses :
     /\ a + kShadowRatio >= kArenaGranule * kShadowRatio
     /\ a < (kArenaGranule + 7) * kShadowRatio
     /\ \/ a % kShadowRatio = 0
        \/ a = (kArenaGranule + 3) * kShadowRatio + 5}

\* The exceptions the threads raise outside the runtime: access violations
\* with one or two parameters, flag 0 (read), 1 (write) or 8 (execute) and
\* a faulting data address, and a breakpoint.  The code address is the
\* last byte the shadow covers.
Exceptions ==
  {[code |-> EXCEPTION_ACCESS_VIOLATION, flags |-> 0, nparams |-> n,
    info |-> IF n = 1 THEN <<flag>> ELSE <<flag, a>>,
    address |-> kShadowSize * kShadowRatio - 1, chain |-> <<>>] :
     n \in {1, 2}, flag \in {0, 1, 8}, a \in FaultAddresses}
  \cup {[code |-> EXCEPTION_BREAKPOINT, flags |-> 0, nparams |-> 0,
         info |-> <<>>, address |-> kShadowSize * kShadowRatio - 1,
         chain |-> <<>>]}

\* An instrumented access of thread t to a byte that is not accessible:
\* the probe fills the report (GetBadAccessInformation holds lock_ while
\* it does) and calls OnError.
ReportBadAccess(t) ==
  /\ runtime_.bound
  /\ ~Terminated
  /\ threads[t].pc = "idle"
  /\ lock_ = 0
  /\ block_info.state \in {"ALLOCATED_BLOCK", "QUARANTINED_BLOCK"}
  /\ \E location \in FaultAddresses,
        access_mode \in {"ASAN_READ_ACCESS", "ASAN_WRITE_ACCESS"} :
       /\ ~IsAccessible(shadow, location)
       /\ threads' =
            [threads EXCEPT ![t] =
               [IdleThread EXCEPT
                  !.pc = "OnError",
                  !.in_OnError = TRUE,
                  !.error_info =
                    GetBadAccessInformation(shadow, <<block_info>>,
                      [NoErrorInfo EXCEPT !.location = location,
                                          !.access_mode = access_mode,
                                          !.access_size = 1])]]
  /\ UNCHANGED <<memvars, racevars, walkvars, heapvars, runtime_, breakpad_functions, host, lock_,
                 block_protect_lock, log>>

\* OnError skipping the page protection lock.
M_OnError_LockNoAcquire(t) ==
  /\ ~Terminated
  /\ threads[t].pc = "OnError"
  /\ threads' = [threads EXCEPT ![t].pc = "OnError_locked"]
  /\ UNCHANGED <<memvars, racevars, walkvars, heapvars, runtime_, breakpad_functions, host, lock_,
                 block_protect_lock, log>>

\* AsanRuntime::OnError taking block_protect_lock, a recursive lock.
OnError_Lock(t) ==
  /\ ~Terminated
  /\ threads[t].pc = "OnError"
  /\ block_protect_lock.owner \in {0, t}
  /\ block_protect_lock' = [owner |-> t,
                            depth |-> block_protect_lock.depth + 1]
  /\ threads' = [threads EXCEPT ![t].pc = "OnError_locked"]
  /\ UNCHANGED <<memvars, racevars, walkvars, heapvars, runtime_, breakpad_functions, host, lock_, log>>

\* The rest of AsanRuntime::OnError: the heap check, OnErrorImpl and the
\* error callback.  DefaultErrorHandler calls ::DebugBreak, whose
\* breakpoint exception either is continued by a debugger, and then the
\* handler raises the sentinel, or is dispatched like any exception; either
\* exception reaches the exception filter on this thread, which still
\* holds block_protect_lock.  BreakpadErrorHandler does not return.  A
\* callback of the embedder returns, and OnError with it.
OnError_Run(t) ==
  /\ ~Terminated
  /\ threads[t].pc = "OnError_locked"
  /\ \E corrupt \in BOOLEAN, continued \in BOOLEAN, is_unhandled \in BOOLEAN :
       LET checked == CheckHeapCorruption(runtime_.params_, t,
                                          threads[t].error_info, corrupt)
           error_info == checked.error_info
           reported == checked.events
                         \o OnErrorImpl(runtime_.params_, t, error_info)
           callback == runtime_.asan_error_callback_
           run == <<Event(t, callback, error_info)>>
       IN  IF reported[Len(reported)].ev = "exit"
           THEN /\ continued /\ is_unhandled
                /\ log' = log \o reported
                /\ threads' = [threads EXCEPT ![t].pc = "exited",
                                              ![t].error_info = error_info]
                /\ UNCHANGED block_protect_lock
           ELSE IF callback = "DefaultErrorHandler"
           THEN LET raised ==
                      IF continued
                      THEN RaiseFilteredException(
                             EXCEPTION_ARRAY_BOUNDS_EXCEEDED, 0, 2, <<t, t>>)
                      ELSE [NoException EXCEPT
                              !.code = EXCEPTION_BREAKPOINT]
                IN  /\ log' = log \o reported \o run
                             \o <<Event(t, "DebugBreak", error_info)>>
                             \o (IF continued
                                 THEN <<Event(t, "RaiseFilteredException",
                                              error_info)>>
                                 ELSE <<>>)
                    /\ threads' =
                         [threads EXCEPT ![t] =
                            [@ EXCEPT !.pc = "Filter",
                                      !.error_info = error_info,
                                      !.fault = raised,
                                      !.exception = raised,
                                      !.is_unhandled = is_unhandled]]
                    /\ UNCHANGED block_protect_lock
           ELSE IF callback = "BreakpadErrorHandler"
           THEN /\ continued /\ is_unhandled
                /\ log' = log \o reported \o run
                            \o <<Event(t, "SetCrashKeys", error_info),
                                 Event(t, "crash_for_exception_ptr",
                                       error_info)>>
                /\ threads' = [threads EXCEPT ![t].pc = "crashed",
                                              ![t].error_info = error_info]
                /\ UNCHANGED block_protect_lock
           ELSE /\ continued /\ is_unhandled
                /\ log' = log \o reported \o run
                /\ threads' = [threads EXCEPT ![t].pc = "done",
                                              ![t].error_info = error_info,
                                              ![t].in_OnError = FALSE]
                /\ block_protect_lock' =
                     IF block_protect_lock.depth = 1
                     THEN [owner |-> 0, depth |-> 0]
                     ELSE [block_protect_lock EXCEPT !.depth = @ - 1]
  /\ UNCHANGED <<memvars, racevars, walkvars, heapvars, runtime_, breakpad_functions, host, lock_>>

\* An exception raised in thread t outside the runtime reaches the filter
\* as unhandled (UnhandledExceptionFilter) or from the filter expression
\* of a handler (CrashForException).
Fault(t) ==
  /\ runtime_.bound
  /\ ~Terminated
  /\ threads[t].pc = "idle"
  /\ block_info.state \in {"ALLOCATED_BLOCK", "QUARANTINED_BLOCK"}
  /\ \E exception \in Exceptions, is_unhandled \in BOOLEAN :
       threads' = [threads EXCEPT ![t] =
                     [IdleThread EXCEPT !.pc = "Filter",
                                        !.fault = exception,
                                        !.exception = exception,
                                        !.is_unhandled = is_unhandled]]
  /\ UNCHANGED <<memvars, racevars, walkvars, heapvars, runtime_, breakpad_functions, host, lock_,
                 block_protect_lock, log>>

\* ExceptionFilterImpl entering its body without lock_.
M_Filter_LockNoAcquire(t) ==
  /\ ~Terminated
  /\ threads[t].pc = "Filter"
  /\ threads' = [threads EXCEPT ![t].pc = "Filter_locked"]
  /\ UNCHANGED <<memvars, racevars, walkvars, heapvars, runtime_, breakpad_functions, host, lock_,
                 block_protect_lock, log>>

\* ExceptionFilterImpl taking lock_, which is not recursive.
Filter_Lock(t) ==
  /\ ~Terminated
  /\ threads[t].pc = "Filter"
  /\ lock_ = 0
  /\ lock_' = t
  /\ threads' = [threads EXCEPT ![t].pc = "Filter_locked"]
  /\ UNCHANGED <<memvars, racevars, walkvars, heapvars, runtime_, breakpad_functions, host,
                 block_protect_lock, log>>

\* ExceptionFilterImpl taking block_protect_lock.
Filter_Protect(t) ==
  /\ ~Terminated
  /\ threads[t].pc = "Filter_locked"
  /\ block_protect_lock.owner \in {0, t}
  /\ block_protect_lock' = [owner |-> t,
                            depth |-> block_protect_lock.depth + 1]
  /\ threads' = [threads EXCEPT ![t].pc = "Filter_body"]
  /\ UNCHANGED <<memvars, racevars, walkvars, heapvars, runtime_, breakpad_functions, host, lock_, log>>

\* The body of ExceptionFilterImpl and its return.  After exit() the
\* process is gone; so it is after an unhandled exception has been through
\* the filters.  Otherwise the handler whose filter expression called
\* CrashForException runs, and the thread leaves the error path with the
\* locks it held released.
Filter_Run(t) ==
  /\ ~Terminated
  /\ threads[t].pc = "Filter_body"
  /\ \E corrupt \in BOOLEAN, faults \in (IF runtime_.bound THEN {FALSE} ELSE BOOLEAN) :
       \E r \in {ExceptionFilterImpl(runtime_, breakpad_functions,
                                     host.previous_uef_, shadow,
                                     <<block_info>>, t,
                                     threads[t].is_unhandled,
                                     threads[t].exception, corrupt)} :
           \* Line 811 reads runtime_->logger_ whether or not a runtime is
           \* bound: through a null runtime_ the read faults inside the
           \* filter, or yields whatever lies there and the filter goes on.
           /\ log' = log
                       \o (IF runtime_.bound THEN <<>>
                           ELSE <<Event(t, "read of NULL runtime_", NoErrorInfo)>>)
                       \o (IF faults THEN <<>> ELSE r.events)
           /\ threads' =
                IF faults
                THEN [threads EXCEPT ![t].pc = "crashed"]
                ELSE
                [threads EXCEPT ![t] =
                   [@ EXCEPT
                      !.pc = IF r.events[Len(r.events)].ev = "exit"
                             THEN "exited"
                             ELSE IF threads[t].is_unhandled THEN "crashed"
                             ELSE "done",
                      !.exception = r.exception,
                      !.filter_info = r.error_info,
                      !.emit_asan_error = r.emit_asan_error,
                      !.in_OnError = FALSE]]
  /\ lock_' = 0
  /\ block_protect_lock' = [owner |-> 0, depth |-> 0]
  /\ UNCHANGED <<memvars, racevars, walkvars, heapvars, runtime_, breakpad_functions, host>>

\* The heap changing the page protections of a block, under
\* block_protect_lock.
BlockProtect(t) ==
  /\ runtime_.bound
  /\ ~Terminated
  /\ threads[t].pc = "idle"
  /\ block_info.state \in {"ALLOCATED_BLOCK", "QUARANTINED_BLOCK"}
  /\ block_protect_lock.owner = 0
  /\ block_protect_lock' = [owner |-> t, depth |-> 1]
  /\ threads' = [threads EXCEPT ![t].pc = "BlockProtect"]
  /\ UNCHANGED <<memvars, racevars, walkvars, heapvars, runtime_, breakpad_functions, host, lock_, log>>

BlockProtect_Done(t) ==
  /\ ~Terminated
  /\ threads[t].pc = "BlockProtect"
  /\ block_protect_lock' = [owner |-> 0, depth |-> 0]
  /\ threads' = [threads EXCEPT ![t].pc = "done"]
  /\ UNCHANGED <<memvars, racevars, walkvars, heapvars, runtime_, breakpad_functions, host, lock_, log>>

\* The fixture's block in a process with a runtime: one block of six
\* granules at the start of the arena, two of them left redzone.
RuntimeBlock ==
  /\ runtime_.bound
  /\ \A t \in Threads : threads[t].pc = "idle"
  /\ \/ /\ InitializeBlock
        /\ block_info'.block = kArenaGranule * kShadowRatio
        /\ block_info'.block_size = 6 * kShadowRatio
        /\ block_info'.header_size = 2 * kShadowRatio
        /\ block_info'.body_size = kShadowRatio + 2
        /\ ~block_info'.is_nested
     \/ MarkBlockAsQuarantined

\* An exception reaching UnhandledExceptionFilter, which stays installed
\* after TearDown, or CrashForException, while no runtime is bound.
UnboundFault(t) ==
  /\ ~runtime_.bound
  /\ ~Terminated
  /\ threads[t].pc = "idle"
  /\ \E exception \in Exceptions, is_unhandled \in BOOLEAN :
       /\ is_unhandled => host.filter = "UnhandledExceptionFilter"
       /\ threads' = [threads EXCEPT ![t] =
                        [IdleThread EXCEPT !.pc = "Filter",
                                           !.fault = exception,
                                           !.exception = exception,
                                           !.is_unhandled = is_unhandled]]
  /\ UNCHANGED <<memvars, racevars, walkvars, heapvars, runtime_, breakpad_functions, host, lock_,
                 block_protect_lock, log>>

\* An exception raised through RaiseFilteredException reaching the filter
\* of the bound runtime: any code but the sentinel itself, flags, and from
\* no argument to more arguments than the sentinel record carries.
FilteredFault(t) ==
  /\ runtime_.bound
  /\ ~Terminated
  /\ threads[t].pc = "idle"
  /\ \E code \in {EXCEPTION_ACCESS_VIOLATION, EXCEPTION_BREAKPOINT},
        flags \in {0, 1},
        args \in {<<>>, <<7>>, <<1, 9>>, <<5, 4, 3, 2, 1>>},
        is_unhandled \in BOOLEAN :
       threads' = [threads EXCEPT ![t] =
                     [IdleThread EXCEPT
                        !.pc = "Filter",
                        !.fault = RaiseFilteredException(code, flags, Len(args), args),
                        !.exception = RaiseFilteredException(code, flags, Len(args), args),
                        !.is_unhandled = is_unhandled]]
  /\ UNCHANGED <<memvars, racevars, walkvars, heapvars, runtime_, breakpad_functions, host, lock_,
                 block_protect_lock, log>>

\* The life of the runtimes of a process: any number of them set up, with
\* option strings that parse or not, and torn down one after the other,
\* exceptions delivered while none is bound, and wrapped exceptions delivered
\* to the one that is.
LifeNext ==
  \/ AsanRuntime_SetUp
  \/ AsanRuntime_SetUpParseFailure
  \/ AsanRuntime_TearDown
  \/ UnboundFault(1)
  \/ FilteredFault(1)
  \/ Filter_Lock(1)
  \/ Filter_Protect(1)
  \/ Filter_Run(1)

LifeSpec == RuntimeInit /\ [][LifeNext]_vars

\* One thread in the error path, any number of runtimes one after the
\* other.
FilterNext ==
  \/ AsanRuntime_SetUp
  \/ AsanRuntime_TearDown
  \/ SetErrorCallBack
  \/ RuntimeBlock
  \/ ReportBadAccess(1)
  \/ OnError_Lock(1)
  \/ OnError_Run(1)
  \/ Fault(1)
  \/ Filter_Lock(1)
  \/ Filter_Protect(1)
  \/ Filter_Run(1)

FilterSpec == RuntimeInit /\ [][FilterNext]_vars

\* Two threads in the error path of one runtime, set up without heap check
\* and minidump, with the block allocated: each thread reads the first byte
\* of the block through an instrumented access or through an access
\* violation, hits a breakpoint, or changes page protections.
LockNext ==
  \/ /\ AsanRuntime_SetUp
     /\ ~runtime_'.params_.check_heap_on_failure
     /\ ~runtime_'.params_.minidump_on_failure
  \/ /\ RuntimeBlock
     /\ block_info'.state = "ALLOCATED_BLOCK"
  \/ \E t \in Threads :
       \/ /\ ReportBadAccess(t)
          /\ threads'[t].error_info.location = kArenaGranule * kShadowRatio
          /\ threads'[t].error_info.access_mode = "ASAN_READ_ACCESS"
       \/ OnError_Lock(t)
       \/ OnError_Run(t)
       \/ /\ Fault(t)
          /\ \/ threads'[t].fault.code = EXCEPTION_BREAKPOINT
             \/ /\ threads'[t].fault.nparams = 2
                /\ threads'[t].fault.info
                     = <<0, kArenaGranule * kShadowRatio>>
       \/ Filter_Lock(t)
       \/ Filter_Protect(t)
       \/ Filter_Run(t)
       \/ BlockProtect(t)
       \/ BlockProtect_Done(t)

LockSpec == RuntimeInit /\ [][LockNext]_vars

(***************************************************************************)
(* The shadow written store by store.  ::memset and the loops of           *)
(* MarkAsFreed store one shadow byte after the other; a store is           *)
(* [index |-> the shadow index, val |-> the byte stored], and the stores   *)
(* of a call are those of its statements, in program order.  A thread      *)
(* that checks an access meanwhile reads one shadow byte without a lock.   *)
(***************************************************************************)
MemsetWrites(start, val, n) ==
  [i \in 1 .. n |-> [index |-> start + i - 1, val |-> val]]

RECURSIVE ApplyWrites(_, _)
ApplyWrites(s, ws) ==
  IF ws = <<>> THEN s
  ELSE ApplyWrites([s EXCEPT ![Head(ws).index] = Head(ws).val], Tail(ws))

PoisonAllocatedBlockWrites(info) ==
  LET index == info.block \div kShadowRatio
      left_redzone_bytes == (BodyOf(info) - info.block) \div kShadowRatio
      body_bytes == (info.body_size + kShadowRatio - 1) \div kShadowRatio
      block_bytes == info.block_size \div kShadowRatio
      right_redzone_bytes == block_bytes - left_redzone_bytes - body_bytes
      body_size_mod == info.body_size % kShadowRatio
      header_marker == BuildBlockStart(TRUE, info.is_nested, body_size_mod)
      trailer_marker == BuildBlockEnd(TRUE, info.is_nested)
      cursor1 == index + left_redzone_bytes
      cursor == cursor1 + body_bytes
  IN  MemsetWrites(index, header_marker, 1)
        \o MemsetWrites(index + 1, kHeapLeftPaddingMarker,
                        left_redzone_bytes - 1)
        \o MemsetWrites(cursor1, kHeapAddressableMarker, body_bytes)
        \o (IF body_size_mod > 0
            THEN <<[index |-> cursor - 1, val |-> body_size_mod]>>
            ELSE <<>>)
        \o MemsetWrites(cursor, kHeapRightPaddingMarker,
                        right_redzone_bytes - 1)
        \o MemsetWrites(cursor + right_redzone_bytes - 1, trailer_marker, 1)

\* MarkAsFreedImpl8 and MarkAsFreedImplAligned64 go up the range; a store
\* of eight freed markers at once is taken as its eight bytes.
RECURSIVE MarkAsFreedImplWrites(_, _, _)
MarkAsFreedImplWrites(s, cursor, cursor_end) ==
  IF cursor >= cursor_end THEN <<>>
  ELSE (IF IsActiveLeftRedzone(s[cursor]) \/ IsActiveRightRedzone(s[cursor])
        THEN <<>>
        ELSE <<[index |-> cursor, val |-> kHeapFreedMarker]>>)
         \o MarkAsFreedImplWrites(s, cursor + 1, cursor_end)

\* MarkAsFreed that clears a shadow byte before it marks it freed.
RECURSIVE M_MarkAsFreedWritesClearFirst(_, _, _)
M_MarkAsFreedWritesClearFirst(s, addr, size) ==
  IF size <= 0 THEN <<>>
  ELSE LET i == addr \div kShadowRatio
       IN  (IF IsActiveLeftRedzone(s[i]) \/ IsActiveRightRedzone(s[i])
            THEN <<>>
            ELSE <<[index |-> i, val |-> kHeapAddressableMarker],
                   [index |-> i, val |-> kHeapFreedMarker]>>)
             \o M_MarkAsFreedWritesClearFirst(s, addr + kShadowRatio,
                                              size - kShadowRatio)

MarkAsFreedWrites(s, addr, size) ==
  LET index == addr \div kShadowRatio
      length == (size + kShadowRatio - 1) \div kShadowRatio
  IN  MarkAsFreedImplWrites(s, index, index + length)

UnpoisonWrites(addr, size) ==
  LET remainder == size % 8
      index == addr \div 8
      size8 == size \div 8
  IN  MemsetWrites(index, kHeapAddressableMarker, size8)
        \o (IF remainder # 0
            THEN <<[index |-> index + size8, val |-> remainder]>>
            ELSE <<>>)

\* The fixture's calls, entered: the stores are pending.  The memory of the
\* fixture's buffer is addressable when the block is laid over it.
InitializeBlock_Enter ==
  /\ block_info.state = "NONE"
  /\ writes = <<>>
  /\ \E info \in FittingBlocks :
       /\ info.block = kArenaGranule * kShadowRatio
       /\ info.body_size <= kShadowRatio + 2
       /\ block_info' = info
       /\ writes' = PoisonAllocatedBlockWrites(info)
       /\ last' = [NoOp EXCEPT !.op = "PoisonAllocatedBlock",
                               !.addr = info.block,
                               !.size = info.block_size]
  /\ before' = shadow
  /\ probe' = NoProbe
  /\ UNCHANGED <<shadow, blocks, quarantine, errors, parameters, rtvars, heapvars, walkvars,
                 page_bits_, page_bits_lock_, updates>>

MarkBlockAsQuarantined_Enter ==
  /\ block_info.state = "ALLOCATED_BLOCK"
  /\ writes = <<>>
  /\ writes' = MarkAsFreedWrites(shadow, BodyOf(block_info),
                                 block_info.body_size)
  /\ block_info' = [block_info EXCEPT !.state = "QUARANTINED_BLOCK",
                                      !.free_stack = "SaveStackTrace",
                                      !.free_tid = GetCurrentThreadId]
  /\ last' = [NoOp EXCEPT !.op = "MarkAsFreed",
                          !.addr = BodyOf(block_info),
                          !.size = block_info.body_size]
  /\ before' = shadow
  /\ probe' = NoProbe
  /\ UNCHANGED <<shadow, blocks, quarantine, errors, parameters, rtvars, heapvars, walkvars,
                 page_bits_, page_bits_lock_, updates>>

DestroyFakeAsanBlock_Enter ==
  /\ block_info.state \in {"ALLOCATED_BLOCK", "QUARANTINED_BLOCK"}
  /\ writes = <<>>
  /\ writes' = UnpoisonWrites(block_info.block, block_info.block_size)
  /\ block_info' = [block_info EXCEPT !.state = "DESTROYED"]
  /\ last' = [NoOp EXCEPT !.op = "Unpoison",
                          !.addr = block_info.block,
                          !.size = block_info.block_size]
  /\ before' = shadow
  /\ probe' = NoProbe
  /\ UNCHANGED <<shadow, blocks, quarantine, errors, parameters, rtvars, heapvars, walkvars,
                 page_bits_, page_bits_lock_, updates>>

\* The next store of the call in flight.
StoreShadowByte ==
  /\ writes # <<>>
  /\ shadow' = [shadow EXCEPT ![Head(writes).index] = Head(writes).val]
  /\ writes' = Tail(writes)
  /\ UNCHANGED <<before, last, block_info, blocks, quarantine, errors,
                 parameters, rtvars, heapvars, walkvars, probe, page_bits_, page_bits_lock_,
                 updates>>

\* Shadow::IsAccessible of a byte of the block, called by another thread
\* once at any time from the entry of the call on.
RacingIsAccessible ==
  /\ last.op # "none"
  /\ ~probe.done
  /\ \E addr \in Envelope(block_info) :
       probe' = [done |-> TRUE, addr |-> addr,
                 result |-> IsAccessible(shadow, addr)]
  /\ UNCHANGED <<memvars, rtvars, heapvars, walkvars, writes, page_bits_, page_bits_lock_,
                 updates>>

RaceNext ==
  \/ InitializeBlock_Enter
  \/ MarkBlockAsQuarantined_Enter
  \/ DestroyFakeAsanBlock_Enter
  \/ StoreShadowByte
  \/ RacingIsAccessible

SetUpInit ==
  /\ Init
  /\ shadow = SetUp(ResetShadow)

RaceSpec == SetUpInit /\ [][RaceNext]_vars

(***************************************************************************)
(* The page protection bits.  page_bits_ holds one bit per page of the     *)
(* address space.  The four Mark functions change bytes of it by a read    *)
(* and a write under page_bits_lock_; PageIsProtected reads a byte         *)
(* without the lock.  updates[t] is the call thread t is in: pc, the       *)
(* arguments, the loop's page cursor, the byte read (value), and the       *)
(* bits as they were when the thread got the lock (old).                   *)
(***************************************************************************)
kPageSize == (2 * kAddressUpperBound) \div (8 * kPageBitsSize)

AddressToPageMask(address) ==
  LET i == address \div kPageSize
  IN  [index |-> i \div 8, mask |-> 2 ^ (i % 8)]

PageIsProtected(bits, addr) ==
  LET m == AddressToPageMask(addr)
  IN  (bits[m.index] \div m.mask) % 2 = 1

\* A Mark function that stores the mask, or zero, over the whole
\* byte.
M_MarkedByteWholeByte(byte, mask, protect) ==
  IF protect THEN mask ELSE 0

\* page_bits_[index] |= mask, and page_bits_[index] &= ~mask.
MarkedByte(byte, mask, protect) ==
  LET set == (byte \div mask) % 2 = 1
  IN  IF protect THEN (IF set THEN byte ELSE byte + mask)
      ELSE (IF set THEN byte - mask ELSE byte)

\* The first addresses of the pages a call is to mark.
MarkedPages(u) ==
  {u.addr + k * kPageSize : k \in {j \in 0 .. (u.page_end - u.addr) : u.addr + j * kPageSize < u.page_end}}

\* MarkPageProtected / MarkPageUnprotected (one page) and
\* MarkPagesProtected / MarkPagesUnprotected (size bytes from addr), called.
MarkPages_Enter(t) ==
  /\ updates[t].pc = "idle"
  /\ \E protect \in BOOLEAN, addr \in {0, kPageSize - 1, 8 * kPageSize}, size \in {1, 2 * kPageSize} :
       updates' = [updates EXCEPT ![t] =
                     [IdleUpdate EXCEPT !.pc = "lock", !.protect = protect,
                                        !.addr = addr, !.page = addr,
                                        !.page_end = addr + size]]
  /\ UNCHANGED <<memvars, rtvars, heapvars, walkvars, writes, probe, page_bits_,
                 page_bits_lock_>>

\* base::AutoLock lock(page_bits_lock_).
AcquirePageBitsLock(t) ==
  /\ updates[t].pc = "lock"
  /\ page_bits_lock_ = 0
  /\ page_bits_lock_' = t
  /\ updates' = [updates EXCEPT ![t].pc = "load", ![t].old = page_bits_]
  /\ UNCHANGED <<memvars, rtvars, heapvars, walkvars, writes, probe, page_bits_>>

\* The read of page_bits_[index] |= mask (with the loop's test before it).
LoadPageBits(t) ==
  /\ updates[t].pc = "load"
  /\ LET u == updates[t]
     IN  updates' = [updates EXCEPT ![t] =
           IF u.page < u.page_end
           THEN [u EXCEPT !.pc = "store",
                          !.value = page_bits_[AddressToPageMask(u.page).index]]
           ELSE [u EXCEPT !.pc = "unlock"]]
  /\ UNCHANGED <<memvars, rtvars, heapvars, walkvars, writes, probe, page_bits_,
                 page_bits_lock_>>

\* The write of page_bits_[index] |= mask, and page += kPageSize.
StorePageBits(t) ==
  /\ updates[t].pc = "store"
  /\ LET u == updates[t]
         m == AddressToPageMask(u.page)
     IN  /\ page_bits_' = [page_bits_ EXCEPT
                             ![m.index] = MarkedByte(u.value, m.mask, u.protect)]
         /\ updates' = [updates EXCEPT ![t].pc = "load",
                                       ![t].page = u.page + kPageSize]
  /\ UNCHANGED <<memvars, rtvars, heapvars, walkvars, writes, probe, page_bits_lock_>>

\* The AutoLock's destructor, at the return.
ReleasePageBitsLock(t) ==
  /\ updates[t].pc = "unlock"
  /\ page_bits_lock_' = 0
  /\ updates' = [updates EXCEPT ![t] = IdleUpdate]
  /\ UNCHANGED <<memvars, rtvars, heapvars, walkvars, writes, probe, page_bits_>>

\* Shadow::PageIsProtected, called by a thread that holds no lock.
RacingPageIsProtected ==
  /\ \E addr \in {0, kPageSize, kPageSize + 1, 8 * kPageSize} :
       probe' = [done |-> TRUE, addr |-> addr,
                 result |-> PageIsProtected(page_bits_, addr)]
  /\ UNCHANGED <<memvars, rtvars, heapvars, walkvars, writes, page_bits_, page_bits_lock_,
                 updates>>

PageNext ==
  \/ \E t \in Threads :
       \/ MarkPages_Enter(t)
       \/ AcquirePageBitsLock(t)
       \/ LoadPageBits(t)
       \/ StorePageBits(t)
       \/ ReleasePageBitsLock(t)
  \/ RacingPageIsProtected

PageSpec == Init /\ [][PageNext]_vars

(***************************************************************************)
(* Nested blocks.  The fixture's block is the outer block; blocks holds    *)
(* the blocks poisoned inside its body, each with the nested bit, inside   *)
(* the body of every block it overlaps.                                    *)
(***************************************************************************)
\* The blocks that are poisoned, the outer one first.
PoisonedBlocks == <<block_info>> \o blocks

\* The innermost poisoned block that has the byte p, as a one-element
\* sequence, or <<>> when no block has it.
InnermostBlock(p) ==
  LET has == {i \in DOMAIN PoisonedBlocks : p \in Envelope(PoisonedBlocks[i])}
      in == {i \in has : \A j \in has : PoisonedBlocks[i].block_size <= PoisonedBlocks[j].block_size}
  IN  IF block_info.state = "NONE" \/ has = {} THEN <<>>
      ELSE <<PoisonedBlocks[CHOOSE i \in in : TRUE]>>

\* Shadow::PoisonAllocatedBlock of a nested block with a short left
\* redzone and a small body, laid inside the body of the outer block, at
\* a higher address than the block poisoned before it.
PoisonNestedBlock ==
  /\ block_info.state = "ALLOCATED_BLOCK"
  /\ last.op = "PoisonAllocatedBlock"
  /\ Len(blocks) < MaxAllocs - 1
  /\ \E info \in FittingBlocks :
       /\ info.is_nested
       /\ info.header_size = kShadowRatio
       /\ info.body_size \in {0, kShadowRatio - 3, 2 * kShadowRatio}
       /\ info.block > PoisonedBlocks[Len(PoisonedBlocks)].block
       /\ \A i \in DOMAIN PoisonedBlocks :
            \/ Envelope(info) \subseteq BodyBytes(PoisonedBlocks[i])
            \/ /\ i > 1
               /\ Envelope(info) \cap Envelope(PoisonedBlocks[i]) = {}
       /\ shadow' = PoisonAllocatedBlock(shadow, info)
       /\ blocks' = Append(blocks, info)
       /\ last' = [NoOp EXCEPT !.op = "PoisonAllocatedBlock",
                               !.addr = info.block,
                               !.size = info.block_size,
                               !.id = Len(blocks) + 1]
  /\ before' = shadow
  /\ UNCHANGED <<block_info, quarantine, errors, parameters, rtvars,
                 racevars, walkvars, heapvars>>

\* Shadow::MarkAsFreed of the body of a poisoned block, or of the whole
\* envelope of the outer block.
MarkRangeAsFreed ==
  /\ block_info.state = "ALLOCATED_BLOCK"
  /\ last.op = "PoisonAllocatedBlock"
  /\ \E i \in DOMAIN PoisonedBlocks, whole \in BOOLEAN :
       LET b == PoisonedBlocks[i]
           addr == IF whole THEN b.block ELSE BodyOf(b)
           size == IF whole THEN b.block_size ELSE b.body_size
       IN  /\ whole => i = 1
           /\ shadow' = MarkAsFreed(shadow, addr, size)
           /\ last' = [NoOp EXCEPT !.op = "MarkAsFreed", !.addr = addr,
                                   !.size = size, !.id = i]
  /\ before' = shadow
  /\ UNCHANGED <<block_info, blocks, quarantine, errors, parameters, rtvars,
                 racevars, walkvars, heapvars>>

\* Shadow::Poison of one granule of the outer block with a block start
\* marker, a block end marker or the addressable marker: the shadow of the
\* block is no longer what PoisonAllocatedBlock wrote.
PoisonGranule ==
  /\ block_info.state = "ALLOCATED_BLOCK"
  /\ last.op = "PoisonAllocatedBlock"
  /\ Len(blocks) <= 1
  /\ \E addr \in Envelope(block_info), marker \in {kHeapBlockStartMarker0, kHeapBlockEndMarker, kHeapAddressableMarker} :
       /\ addr % kShadowRatio = 0
       /\ shadow[addr \div kShadowRatio] # marker
       /\ shadow' = Poison(shadow, addr, kShadowRatio, marker)
       /\ last' = [NoOp EXCEPT !.op = "Poison", !.addr = addr,
                               !.size = kShadowRatio, !.marker = marker]
  /\ before' = shadow
  /\ UNCHANGED <<block_info, blocks, quarantine, errors, parameters, rtvars,
                 racevars, walkvars, heapvars>>

\* An outer block with a body of at least 2 * sizeof(uint64) granules and
\* a right redzone no longer than the left one at the start of the arena,
\* nested blocks in it, and then one MarkAsFreed
\* or one stray Poison.
NestNext ==
  \/ /\ InitializeBlock
     /\ ~block_info'.is_nested
     /\ block_info'.block = kArenaGranule * kShadowRatio
     /\ block_info'.body_size - 2 * 8 * kShadowRatio \in {0, kShadowRatio - 3}
     /\ block_info'.block_size - block_info'.body_size < 2 * block_info'.header_size + kShadowRatio
  \/ PoisonNestedBlock
  \/ MarkRangeAsFreed
  \/ PoisonGranule

NestSpec == SetUpInit /\ [][NestNext]_vars

(***************************************************************************)
(* ShadowWalker.  blocks holds the blocks that were poisoned, in ascending *)
(* order of their addresses; a block laid in the body of another one has   *)
(* the nested bit.  A walker that has read beyond the shadow array, or     *)
(* whose CHECK has failed, walks no further.                               *)
(***************************************************************************)
\* Shadow::PoisonAllocatedBlock of a block with redzones of one granule:
\* at the start of the arena, at the start of the body of a block or at
\* the end of a block, or one granule after one of these.
PoisonBlock ==
  /\ walker.state = "none"
  /\ Len(blocks) < MaxAllocs
  /\ \E info \in FittingBlocks, gap \in {0, kShadowRatio} :
       /\ info.header_size = kShadowRatio
       /\ info.trailer_size <= kShadowRatio
       /\ info.body_size \in {0, 2 * kShadowRatio, 2 * 8 * kShadowRatio}
       /\ \/ info.block - gap = kArenaGranule * kShadowRatio
          \/ \E i \in DOMAIN blocks :
               info.block - gap \in {BodyOf(blocks[i]), blocks[i].block + blocks[i].block_size}
       /\ \A i \in DOMAIN blocks :
            /\ info.block > blocks[i].block
            /\ \/ Envelope(info) \subseteq BodyBytes(blocks[i])
               \/ Envelope(info) \cap Envelope(blocks[i]) = {}
       /\ info.is_nested =
            (\E i \in DOMAIN blocks : Envelope(info) \subseteq BodyBytes(blocks[i]))
       /\ shadow' = PoisonAllocatedBlock(shadow, info)
       /\ blocks' = Append(blocks, info)
       /\ last' = [NoOp EXCEPT !.op = "PoisonAllocatedBlock",
                               !.addr = info.block,
                               !.size = info.block_size,
                               !.id = Len(blocks) + 1]
  /\ before' = shadow
  /\ UNCHANGED <<block_info, quarantine, errors, parameters, rtvars,
                 racevars, heapvars, walkvars>>

\* ShadowWalker::Reset: the cursor of the walker w at the first block start
\* that is not nested, or at the upper bound.
RECURSIVE Reset(_, _)
Reset(s, w) ==
  IF w.cursor_ = w.upper_bound_ THEN w
  ELSE IF /\ IsBlockStart(GetShadowMarkerForAddress(s, w.cursor_))
          /\ ~IsNestedBlockStart(GetShadowMarkerForAddress(s, w.cursor_))
       THEN w
       ELSE Reset(s, [w EXCEPT !.cursor_ = @ + kShadowRatio])

\* The constructor: the bounds aligned to kShadowRatio, then Reset.
ShadowWalker(s, recursive, lower_bound, upper_bound) ==
  Reset(s, [NoWalker EXCEPT
              !.state = "walking",
              !.recursive_ = recursive,
              !.lower_bound_ = (lower_bound \div kShadowRatio) * kShadowRatio,
              !.upper_bound_ = ((upper_bound + kShadowRatio - 1) \div kShadowRatio) * kShadowRatio,
              !.cursor_ = (lower_bound \div kShadowRatio) * kShadowRatio,
              !.nesting_depth_ = -1])

\* ShadowWalker::Next that skips the body of the block it reports in the
\* recursive mode too.
RECURSIVE M_ShadowWalker_NextSkipBody(_, _)
M_ShadowWalker_NextSkipBody(s, w) ==
  IF w.cursor_ = w.upper_bound_ THEN [w EXCEPT !.result = FALSE]
  ELSE IF w.cursor_ \div kShadowRatio >= kShadowSize
  THEN [w EXCEPT !.state = "read outside shadow_"]
  ELSE
    LET marker == s[w.cursor_ \div kShadowRatio]
        step == [w EXCEPT !.cursor_ = @ + kShadowRatio]
        Report(r) ==
          IF ~r.ok
          THEN [w EXCEPT !.state = "CHECK failed", !.nesting_depth_ = @ + 1]
          ELSE [w EXCEPT
                  !.nesting_depth_ = @ + 1,
                  !.cursor_ = @ + r.info.block_size - kShadowRatio,
                  !.reported = Append(@, r.info),
                  !.result = TRUE]
    IN  IF IsBlockEnd(marker)
        THEN M_ShadowWalker_NextSkipBody(s, [step EXCEPT !.nesting_depth_ = @ - 1])
        ELSE IF IsBlockStart(marker)
        THEN IF ~IsNestedBlockStart(marker) \/ w.recursive_
             THEN Report(BlockInfoFromShadow(s, w.cursor_))
             ELSE M_ShadowWalker_NextSkipBody(s, [step EXCEPT !.nesting_depth_ = @ + 1])
        ELSE M_ShadowWalker_NextSkipBody(s, step)

\* ShadowWalker::Next.  The walker returned has the block reported, if
\* any, appended to `reported`, and the value returned in `result`.  A
\* cursor that is not the upper bound and not an address of the shadow
\* makes GetShadowMarkerForAddress read outside shadow_.
RECURSIVE ShadowWalker_Next(_, _)
ShadowWalker_Next(s, w) ==
  IF w.cursor_ = w.upper_bound_ THEN [w EXCEPT !.result = FALSE]
  ELSE IF w.cursor_ \div kShadowRatio >= kShadowSize
  THEN [w EXCEPT !.state = "read outside shadow_"]
  ELSE
    LET marker == s[w.cursor_ \div kShadowRatio]
        step == [w EXCEPT !.cursor_ = @ + kShadowRatio]
        Report(r) ==
          IF ~r.ok
          THEN [w EXCEPT !.state = "CHECK failed", !.nesting_depth_ = @ + 1]
          ELSE [w EXCEPT
                  !.nesting_depth_ = @ + 1,
                  !.cursor_ = IF w.recursive_ THEN @ + kShadowRatio
                              ELSE @ + r.info.block_size - kShadowRatio,
                  !.reported = Append(@, r.info),
                  !.result = TRUE]
    IN  IF IsBlockEnd(marker)
        THEN ShadowWalker_Next(s, [step EXCEPT !.nesting_depth_ = @ - 1])
        ELSE IF IsBlockStart(marker)
        THEN IF ~IsNestedBlockStart(marker) \/ w.recursive_
             THEN Report(BlockInfoFromShadow(s, w.cursor_))
             ELSE ShadowWalker_Next(s, [step EXCEPT !.nesting_depth_ = @ + 1])
        ELSE ShadowWalker_Next(s, step)

\* The bounds given to a walker: the bounds of the arena, and for each
\* block its base, its end and an address of its body or of its trailer.
WalkerBounds ==
  {kArenaGranule * kShadowRatio, kAddressUpperBound}
    \cup {blocks[i].block : i \in DOMAIN blocks}
    \cup {blocks[i].block + blocks[i].block_size : i \in DOMAIN blocks}
    \cup {BodyOf(blocks[i]) + 1 : i \in DOMAIN blocks}

\* A walker is constructed over the shadow as it is.
NewShadowWalker ==
  /\ walker.state = "none"
  /\ \E recursive \in BOOLEAN, lower_bound \in WalkerBounds, upper_bound \in WalkerBounds :
       /\ kAddressLowerBound <= lower_bound
       /\ upper_bound <= kAddressUpperBound
       /\ lower_bound <= upper_bound
       /\ walker' = ShadowWalker(shadow, recursive, lower_bound, upper_bound)
  /\ UNCHANGED <<memvars, rtvars, racevars, heapvars, corrupt_heap_info>>

\* One more call of Next, until it has been called MaxAllocs + 2 times:
\* at least twice more than there are blocks to report.
CallNext ==
  /\ walker.state = "walking"
  /\ walker.calls < MaxAllocs + 2
  /\ walker' = [ShadowWalker_Next(shadow, walker) EXCEPT !.calls = @ + 1]
  /\ UNCHANGED <<memvars, rtvars, racevars, heapvars, corrupt_heap_info>>

WalkNext ==
  \/ PoisonBlock
  \/ NewShadowWalker
  \/ CallNext

WalkSpec == SetUpInit /\ [][WalkNext]_vars

(***************************************************************************)
(* AsanRuntime::WriteCorruptHeapInfo.  The buffer is the bytes             *)
(* 0 .. buffer_size - 1; a record written is [kind, offset, size], its     *)
(* bytes being offset .. offset + size - 1 of the buffer.  The sizes of    *)
(* the two records are scaled down.                                        *)
(***************************************************************************)
sizeof_AsanCorruptBlockRange == 5
sizeof_AsanBlockInfo == 7

\* The corrupt ranges the heap checker can hand over: runs of consecutive
\* blocks that are not nested, in ascending order of address.
CorruptRanges ==
  LET tops == SelectSeq(blocks, LAMBDA b : ~b.is_nested)
      runs == {r \in (DOMAIN tops) \X (DOMAIN tops) : r[1] <= r[2]}
      RangeOf(r) ==
        [address |-> tops[r[1]].block,
         length |-> tops[r[2]].block + tops[r[2]].block_size - tops[r[1]].block,
         block_count |-> r[2] - r[1] + 1]
      lists == UNION {[1 .. k -> runs] : k \in 0 .. Len(tops)}
  IN  {[n \in DOMAIN f |-> RangeOf(f[n])] :
         f \in {g \in lists : \A a, b \in DOMAIN g : a < b => g[a][2] < g[b][1]}}

\* WriteCorruptHeapInfo with the number of ranges that fit rounded up.
M_WriteCorruptHeapInfoRoundUp(s, corrupt_ranges, buffer_size) ==
  LET RECURSIVE Sum(_)
      Sum(i) == IF i = 0 THEN 0 ELSE Sum(i - 1) + corrupt_ranges[i].block_count
      record == sizeof_AsanCorruptBlockRange + sizeof_AsanBlockInfo
      fit == (buffer_size + record - 1) \div record
      range_count == IF fit < Len(corrupt_ranges) THEN fit ELSE Len(corrupt_ranges)
      block_infos == range_count * sizeof_AsanCorruptBlockRange
      Walked(i) ==
        ShadowWalker_Next(s, ShadowWalker(s, FALSE, corrupt_ranges[i].address, corrupt_ranges[i].address + corrupt_ranges[i].length))
  IN  IF corrupt_ranges = <<>>
      THEN [state |-> "returned", ranges |-> corrupt_ranges,
            buffer_size |-> buffer_size,
            heap_is_corrupt |-> FALSE, corrupt_range_count |-> 0,
            corrupt_block_count |-> 0, corrupt_ranges_reported |-> 0,
            corrupt_ranges |-> <<>>, written |-> <<>>]
      ELSE [state |-> IF \A i \in 1 .. range_count : Walked(i).result
                      THEN "returned" ELSE "CHECK failed",
            ranges |-> corrupt_ranges,
            buffer_size |-> buffer_size,
            heap_is_corrupt |-> TRUE,
            corrupt_range_count |-> Len(corrupt_ranges),
            corrupt_block_count |-> Sum(Len(corrupt_ranges)),
            corrupt_ranges_reported |-> range_count,
            corrupt_ranges |->
              [i \in 1 .. range_count |->
                 [address |-> corrupt_ranges[i].address,
                  length |-> corrupt_ranges[i].length,
                  block_count |-> corrupt_ranges[i].block_count,
                  block_info |-> block_infos + (i - 1) * sizeof_AsanBlockInfo,
                  block_info_count |-> 1,
                  header |-> IF Walked(i).result
                             THEN Walked(i).reported[1].block ELSE 0]],
            written |->
              [i \in 1 .. 2 * range_count |->
                 IF i % 2 = 1
                 THEN [kind |-> "AsanCorruptBlockRange",
                       offset |-> (i \div 2) * sizeof_AsanCorruptBlockRange,
                       size |-> sizeof_AsanCorruptBlockRange]
                 ELSE [kind |-> "AsanBlockInfo",
                       offset |-> block_infos + (i \div 2 - 1) * sizeof_AsanBlockInfo,
                       size |-> sizeof_AsanBlockInfo]]]

\* The ranges given, the fields of error_info the function sets, and the
\* records it writes to the buffer in the order of the writes: for each range reported the
\* range record, then the record of its first block, which a walker over
\* the range finds.  The function goes no further than a CHECK that fails.
WriteCorruptHeapInfo(s, corrupt_ranges, buffer_size) ==
  LET RECURSIVE Sum(_)
      Sum(i) == IF i = 0 THEN 0 ELSE Sum(i - 1) + corrupt_ranges[i].block_count
      record == sizeof_AsanCorruptBlockRange + sizeof_AsanBlockInfo
      fit == buffer_size \div record
      range_count == IF fit < Len(corrupt_ranges) THEN fit ELSE Len(corrupt_ranges)
      block_infos == range_count * sizeof_AsanCorruptBlockRange
      Walked(i) ==
        ShadowWalker_Next(s, ShadowWalker(s, FALSE, corrupt_ranges[i].address, corrupt_ranges[i].address + corrupt_ranges[i].length))
  IN  IF corrupt_ranges = <<>>
      THEN [state |-> "returned", ranges |-> corrupt_ranges,
            buffer_size |-> buffer_size,
            heap_is_corrupt |-> FALSE, corrupt_range_count |-> 0,
            corrupt_block_count |-> 0, corrupt_ranges_reported |-> 0,
            corrupt_ranges |-> <<>>, written |-> <<>>]
      ELSE [state |-> IF \A i \in 1 .. range_count : Walked(i).result
                      THEN "returned" ELSE "CHECK failed",
            ranges |-> corrupt_ranges,
            buffer_size |-> buffer_size,
            heap_is_corrupt |-> TRUE,
            corrupt_range_count |-> Len(corrupt_ranges),
            corrupt_block_count |-> Sum(Len(corrupt_ranges)),
            corrupt_ranges_reported |-> range_count,
            corrupt_ranges |->
              [i \in 1 .. range_count |->
                 [address |-> corrupt_ranges[i].address,
                  length |-> corrupt_ranges[i].length,
                  block_count |-> corrupt_ranges[i].block_count,
                  block_info |-> block_infos + (i - 1) * sizeof_AsanBlockInfo,
                  block_info_count |-> 1,
                  header |-> IF Walked(i).result
                             THEN Walked(i).reported[1].block ELSE 0]],
            written |->
              [i \in 1 .. 2 * range_count |->
                 IF i % 2 = 1
                 THEN [kind |-> "AsanCorruptBlockRange",
                       offset |-> (i \div 2) * sizeof_AsanCorruptBlockRange,
                       size |-> sizeof_AsanCorruptBlockRange]
                 ELSE [kind |-> "AsanBlockInfo",
                       offset |-> block_infos + (i \div 2 - 1) * sizeof_AsanBlockInfo,
                       size |-> sizeof_AsanBlockInfo]]]

\* A call of WriteCorruptHeapInfo with a list of corrupt ranges of the
\* heap as it is and a buffer of a whole number of pairs of records, or of
\* one byte less.
CallWriteCorruptHeapInfo ==
  /\ corrupt_heap_info.state = "none"
  /\ \E corrupt_ranges \in CorruptRanges, pairs \in 0 .. MaxAllocs, less \in {0, 1} :
       /\ pairs > 0 \/ less = 0
       /\ corrupt_heap_info' =
            WriteCorruptHeapInfo(shadow, corrupt_ranges, pairs * (sizeof_AsanCorruptBlockRange + sizeof_AsanBlockInfo) - less)
  /\ UNCHANGED <<memvars, rtvars, racevars, heapvars, walker>>

CorruptNext ==
  \/ /\ PoisonBlock
     /\ corrupt_heap_info.state = "none"
  \/ CallWriteCorruptHeapInfo

CorruptSpec == SetUpInit /\ [][CorruptNext]_vars

(***************************************************************************)
(* The properties.                                                         *)
(***************************************************************************)
\* C1: after PoisonAllocatedBlock(info), BlockInfoFromShadow(info.body)
\* succeeds and recovers the block base, the block size, the header size,
\* the trailer size and the nested flag of the planned block.
Thm_C1_EnvelopeRoundTrip ==
  block_info.state = "ALLOCATED_BLOCK" =>
    LET r == BlockInfoFromShadow(shadow, BodyOf(block_info))
    IN  /\ r.ok
        /\ r.info.block = block_info.block
        /\ r.info.block_size = block_info.block_size
        /\ r.info.header_size = block_info.header_size
        /\ r.info.trailer_size = block_info.trailer_size
        /\ r.info.is_nested = block_info.is_nested

Wit_C1_EmptyNestedBlockRecovered ==
  /\ block_info.state = "ALLOCATED_BLOCK"
  /\ block_info.body_size = 0
  /\ block_info.is_nested
  /\ block_info.trailer_size = kShadowRatio
  /\ BlockInfoFromShadow(shadow, BodyOf(block_info)).ok

\* C2: after PoisonAllocatedBlock a byte of the envelope is accessible
\* exactly when it is a byte of the body, and every byte outside the
\* envelope is as accessible as it was before the call.
Thm_C2_OnlyBodyAccessible ==
  block_info.state = "ALLOCATED_BLOCK" =>
    \A p \in AllAddresses :
      IF p \in Envelope(block_info)
      THEN IsAccessible(shadow, p) <=> p \in BodyBytes(block_info)
      ELSE IsAccessible(shadow, p) <=> IsAccessible(before, p)

Wit_C2_PartialBodyPoisoned ==
  /\ block_info.state = "ALLOCATED_BLOCK"
  /\ block_info.body_size % kShadowRatio = 3
  /\ IsAccessible(shadow, BodyOf(block_info) + block_info.body_size - 1)
  /\ ~IsAccessible(shadow, BodyOf(block_info) + block_info.body_size)
  /\ \E p \in AllAddresses \ Envelope(block_info) : ~IsAccessible(shadow, p)

\* C3: after Unpoison(addr, size) with addr 8-aligned, the accessible bytes
\* of the granules it touched, [addr, roundup8(addr + size)), are exactly
\* the bytes of [addr, addr + size).
Thm_C3_UnpoisonPartialByteLaw ==
  last.op = "Unpoison" =>
    \A p \in last.addr ..
             ((last.addr + last.size + 7) \div 8) * 8 - 1 :
      IsAccessible(shadow, p) <=> p < last.addr + last.size

Wit_C3_UnpoisonedPartialGranule ==
  /\ last.op = "Unpoison"
  /\ last.size % 8 = 5
  /\ last.size > 8
  /\ \E p \in last.addr .. last.addr + last.size - 1 :
       ~IsAccessible(before, p)
  /\ ~IsAccessible(shadow, last.addr + last.size)

\* C4: after MarkAsFreed(body, body_size) on an allocated block every
\* granule of the body holds kHeapFreedMarker, a last granule that held a
\* partial marker included, and every other granule of the envelope (block
\* start, left padding, right padding, block end) is unchanged.
Thm_C4_FreedPreservation ==
  (block_info.state = "QUARANTINED_BLOCK" /\ last.op = "MarkAsFreed") =>
    \A p \in Envelope(block_info) :
      LET i == p \div kShadowRatio
      IN  IF i \in BodyGranules(block_info)
          THEN shadow[i] = kHeapFreedMarker
          ELSE shadow[i] = before[i]
                 /\ (IsActiveLeftRedzone(shadow[i])
                       \/ IsActiveRightRedzone(shadow[i]))

Wit_C4_PartialGranuleFreed ==
  /\ block_info.state = "QUARANTINED_BLOCK"
  /\ last.op = "MarkAsFreed"
  /\ block_info.body_size % kShadowRatio # 0
  /\ block_info.body_size > 2 * 8 * kShadowRatio
  /\ before[(BodyOf(block_info) + block_info.body_size) \div kShadowRatio]
       \in 1 .. 7
  /\ shadow[(BodyOf(block_info) + block_info.body_size) \div kShadowRatio]
       = kHeapFreedMarker

\* C5: after MarkAsFreed on the body of a poisoned block no byte of the
\* envelope is accessible, and every byte outside the envelope is as
\* accessible as it was before the block was freed.
Thm_C5_QuarantinedInaccessible ==
  (block_info.state = "QUARANTINED_BLOCK" /\ last.op = "MarkAsFreed") =>
    \A p \in AllAddresses :
      IF p \in Envelope(block_info)
      THEN ~IsAccessible(shadow, p)
      ELSE IsAccessible(shadow, p) <=> IsAccessible(before, p)

Wit_C5_LargeBodyQuarantined ==
  /\ block_info.state = "QUARANTINED_BLOCK"
  /\ last.op = "MarkAsFreed"
  /\ block_info.body_size >= 2 * 8 * kShadowRatio
  /\ BodyOf(block_info) % (8 * kShadowRatio) # 0
  /\ IsAccessible(before, BodyOf(block_info))
  /\ ~IsAccessible(shadow, BodyOf(block_info))

\* C6: PoisonAllocatedBlock writes, in order, one active block start
\* marker with body_size mod 8 and the nested bit, left padding for the
\* rest of the left redzone, ceil(body_size / 8) body bytes that are 0 but
\* for a last one of body_size mod 8 when that is not 0, right padding for
\* the right redzone but its last granule, and one block end marker with
\* the nested bit; no shadow byte outside the envelope changes.
Thm_C6_EnvelopeMarkers ==
  block_info.state = "ALLOCATED_BLOCK" =>
    LET first == block_info.block \div kShadowRatio
        body == BodyOf(block_info) \div kShadowRatio
        pad == (BodyOf(block_info) + block_info.body_size + kShadowRatio - 1)
                 \div kShadowRatio
        end == (block_info.block + block_info.block_size) \div kShadowRatio
        mod == block_info.body_size % kShadowRatio
        nested == IF block_info.is_nested THEN 1 ELSE 0
    IN  \A i \in DOMAIN shadow :
          shadow[i] =
            IF i < first \/ i >= end THEN before[i]
            ELSE IF i = first THEN 224 + 8 * nested + mod
            ELSE IF i < body THEN kHeapLeftPaddingMarker
            ELSE IF i < pad - 1 THEN kHeapAddressableMarker
            ELSE IF i = pad - 1 THEN mod
            ELSE IF i < end - 1 THEN kHeapRightPaddingMarker
            ELSE kHeapBlockEndMarker + nested

Wit_C6_NestedPartialEnvelope ==
  /\ block_info.state = "ALLOCATED_BLOCK"
  /\ block_info.is_nested
  /\ block_info.body_size % kShadowRatio = 5
  /\ block_info.header_size > kShadowRatio
  /\ block_info.block + block_info.block_size < kShadowSize * kShadowRatio
  /\ shadow[block_info.block \div kShadowRatio] = 237
  /\ before[(block_info.block + block_info.block_size) \div kShadowRatio]
       # kHeapAddressableMarker

\* C7: IsBeginningOfBlockBody(info.body) is true for every block poisoned
\* by PoisonAllocatedBlock, an empty body included, and stays true after
\* MarkAsFreed(body, body_size).
Thm_C7_BeginningOfBlockBody ==
  block_info.state \in {"ALLOCATED_BLOCK", "QUARANTINED_BLOCK"} =>
    IsBeginningOfBlockBody(shadow, BodyOf(block_info))

Wit_C7_FreedBodyBeginning ==
  /\ block_info.state = "QUARANTINED_BLOCK"
  /\ block_info.body_size > 0
  /\ shadow[BodyOf(block_info) \div kShadowRatio] = kHeapFreedMarker
  /\ IsBeginningOfBlockBody(shadow, BodyOf(block_info))

\* C8: for a poisoned block IsBlockStartByte is true at the block base,
\* IsLeftRedzone is true of every byte strictly between the base and the
\* body, IsRightRedzone is true of every byte from the 8-aligned end of the
\* body to the end of the block, and no byte of the body is classified as
\* left or right redzone.
Thm_C8_RedzoneClassification ==
  block_info.state = "ALLOCATED_BLOCK" =>
    LET body == BodyOf(block_info)
        aligned_trailer_begin ==
          ((body + block_info.body_size + kShadowRatio - 1)
             \div kShadowRatio) * kShadowRatio
    IN  /\ IsBlockStartByte(shadow, block_info.block)
        /\ \A p \in block_info.block + 1 .. body - 1 :
             IsLeftRedzone(shadow, p)
        /\ \A p \in aligned_trailer_begin ..
                    block_info.block + block_info.block_size - 1 :
             IsRightRedzone(shadow, p)
        /\ \A p \in BodyBytes(block_info) :
             ~IsLeftRedzone(shadow, p) /\ ~IsRightRedzone(shadow, p)

Wit_C8_PartialGranuleClassified ==
  /\ block_info.state = "ALLOCATED_BLOCK"
  /\ block_info.body_size % kShadowRatio = 2
  /\ ~IsRightRedzone(shadow, BodyOf(block_info) + block_info.body_size - 1)
  /\ IsRightRedzone(shadow, BodyOf(block_info) + block_info.body_size)
  /\ IsLeftRedzone(shadow, BodyOf(block_info) - 1)

Thm_C11_QuarantineSizeBound ==
  /\ QuarantineSize(blocks, quarantine, 0) <= parameters.quarantine_size
  /\ \A i \in DOMAIN blocks :
       blocks[i].state = "QUARANTINED_BLOCK" =>
         \E sh \in Shards : \E k \in DOMAIN quarantine[sh] :
           quarantine[sh][k] = i
  /\ parameters.quarantine_size = 0 =>
       /\ \A sh \in Shards : quarantine[sh] = <<>>
       /\ \A i \in DOMAIN blocks :
            blocks[i].state \in {"ALLOCATED_BLOCK", "FREED_BLOCK"}

Wit_C11_TrimmedToBound ==
  /\ last.op = "Free"
  /\ last.evicted # <<>>
  /\ parameters.quarantine_size > 0
  /\ QuarantineSize(blocks, quarantine, 0) > 0
  /\ QuarantineSize(blocks, quarantine, 0) <= parameters.quarantine_size

Thm_C13_BadAccessClassification ==
  LET body == BodyOf(block_info)
      Reported(kind) ==
        /\ Len(errors) = 1
        /\ errors[1].error_type = kind
        /\ errors[1].location = last.addr
        /\ errors[1].access_mode = last.mode
        /\ errors[1].access_size = last.size
  IN  last.op = "CheckAccess" =>
        /\ (/\ block_info.state = "ALLOCATED_BLOCK"
            /\ last.addr = body + block_info.body_size)
             => Reported("HEAP_BUFFER_OVERFLOW")
        /\ (/\ block_info.state = "ALLOCATED_BLOCK"
            /\ last.addr >= block_info.block
            /\ last.addr < body)
             => Reported("HEAP_BUFFER_UNDERFLOW")
        /\ (/\ block_info.state = "QUARANTINED_BLOCK"
            /\ last.addr >= body
            /\ last.addr < body + block_info.body_size)
             => Reported("USE_AFTER_FREE")

Wit_C13_OverflowInPartialGranule ==
  /\ last.op = "CheckAccess"
  /\ block_info.state = "ALLOCATED_BLOCK"
  /\ block_info.body_size = kShadowRatio + 2
  /\ last.addr = BodyOf(block_info) + block_info.body_size
  /\ last.size = 4
  /\ last.mode = "ASAN_WRITE_ACCESS"
  /\ Len(errors) = 1
  /\ errors[1].error_type = "HEAP_BUFFER_OVERFLOW"

Cex_C15_ProcessedOnce ==
  \A t \in Threads :
    (/\ threads[t].pc \in {"done", "crashed", "exited"}
     /\ \E i \in DOMAIN log :
          log[i].tid = t /\ log[i].ev = "DefaultErrorHandler") =>
      LET at(ev) == {i \in DOMAIN log : log[i].tid = t /\ log[i].ev = ev}
      IN  /\ Cardinality(at("LogAsanErrorInfo")) = 1
          /\ Cardinality(at("IsHeapCorrupt"))
               = (IF runtime_.params_.check_heap_on_failure THEN 1 ELSE 0)
          /\ Cardinality(at("SaveMiniDump"))
               = (IF runtime_.params_.minidump_on_failure THEN 1 ELSE 0)
          /\ ~threads[t].emit_asan_error

\* The part of C15 that holds, for the sentinel: when the sentinel exception
\* the handler raised has been through the exception filter, the thread's
\* heap check, error log entry and minidump are the ones OnError made, all
\* of them before the filter was entered, and the filter has emitted no
\* error for it.
Thm_C15_SentinelProcessedOnce ==
  \A t \in Threads :
    (/\ threads[t].pc \in {"done", "crashed", "exited"}
     /\ threads[t].fault.code = kAsanException) =>
      LET at(ev) == {i \in DOMAIN log : log[i].tid = t /\ log[i].ev = ev}
          entered == CHOOSE i \in at("Handling an exception") : TRUE
      IN  /\ Cardinality(at("Handling an exception")) = 1
          /\ Cardinality(at("DefaultErrorHandler")) = 1
          /\ Cardinality(at("LogAsanErrorInfo")) = 1
          /\ Cardinality(at("IsHeapCorrupt"))
               = (IF runtime_.params_.check_heap_on_failure THEN 1 ELSE 0)
          /\ Cardinality(at("SaveMiniDump"))
               = (IF runtime_.params_.minidump_on_failure THEN 1 ELSE 0)
          /\ \A i \in at("LogAsanErrorInfo") \cup at("IsHeapCorrupt")
                      \cup at("SaveMiniDump") : i < entered
          /\ ~threads[t].emit_asan_error
          /\ threads[t].filter_info = NoErrorInfo

\* C15 witness: with the heap check and the minidump enabled, the sentinel
\* of an error that found the heap corrupt has been through the filter.
Wit_C15_SentinelFiltered ==
  /\ threads[1].pc \in {"done", "crashed"}
  /\ threads[1].fault.code = kAsanException
  /\ runtime_.params_.check_heap_on_failure
  /\ runtime_.params_.minidump_on_failure
  /\ threads[1].error_info.heap_is_corrupt
  /\ threads[1].error_info.error_type = "USE_AFTER_FREE"

Cex_C19_NoCrashReporterWhenDisabled ==
  (runtime_.bound /\ runtime_.params_.disable_breakpad_reporting) =>
    /\ runtime_.asan_error_callback_ # "BreakpadErrorHandler"
    /\ \A i \in DOMAIN log :
         log[i].ev \notin {"SetCrashKeys", "crash_for_exception_ptr"}

\* C20: with exit_on_failure set, an error that has reached OnError or has
\* been emitted by the exception filter has ended the process, and ended it
\* after the report: the log ends with the error log entry, then the
\* minidump if minidump_on_failure is set, then the stop of the logger,
\* then the exit, and no error callback has run.  With exit_on_failure
\* clear, a thread whose OnError has passed OnErrorImpl has run the
\* registered error callback exactly once, after its error log entry and
\* its minidump.
Thm_C20_ExitAfterReport ==
  LET callbacks == {"DefaultErrorHandler", "BreakpadErrorHandler",
                    "AsanCallback"}
      n == Len(log)
  IN  /\ \A t \in Threads :
           threads[t].pc = "exited" =>
             /\ runtime_.params_.exit_on_failure
             /\ n >= 3
             /\ log[n].ev = "exit" /\ log[n].tid = t
             /\ log[n - 1].ev = "Stop" /\ log[n - 1].tid = t
             /\ IF runtime_.params_.minidump_on_failure
                THEN /\ n >= 4
                     /\ log[n - 2].ev = "SaveMiniDump" /\ log[n - 2].tid = t
                     /\ log[n - 3].ev = "LogAsanErrorInfo"
                     /\ log[n - 3].tid = t
                ELSE /\ log[n - 2].ev = "LogAsanErrorInfo"
                     /\ log[n - 2].tid = t
      /\ (runtime_.bound /\ runtime_.params_.exit_on_failure) =>
           /\ \A i \in DOMAIN log : log[i].ev \notin callbacks
           /\ \A t \in Threads :
                (\/ threads[t].emit_asan_error
                 \/ /\ threads[t].error_info # NoErrorInfo
                    /\ threads[t].pc \notin {"OnError", "OnError_locked"})
                  => threads[t].pc = "exited"
      /\ (runtime_.bound /\ ~runtime_.params_.exit_on_failure) =>
           \A t \in Threads :
             (/\ threads[t].error_info # NoErrorInfo
              /\ threads[t].pc \notin {"OnError", "OnError_locked"}) =>
               LET ran == {i \in DOMAIN log :
                             log[i].tid = t /\ log[i].ev \in callbacks}
                   reported == {i \in DOMAIN log :
                                  /\ log[i].tid = t
                                  /\ log[i].ev \in {"LogAsanErrorInfo",
                                                     "SaveMiniDump"}}
                   first == CHOOSE i \in ran : TRUE
               IN  /\ Cardinality(ran) = 1
                   /\ log[first].ev = runtime_.asan_error_callback_
                   /\ \E i \in reported :
                        i < first /\ log[i].ev = "LogAsanErrorInfo"
                   /\ runtime_.params_.minidump_on_failure =>
                        \E i \in reported :
                          i < first /\ log[i].ev = "SaveMiniDump"

\* C20 witness: with exit_on_failure and minidump_on_failure set, the
\* process has exited on an error the exception filter emitted.
Wit_C20_ExitedAfterFilterReport ==
  /\ threads[1].pc = "exited"
  /\ runtime_.params_.minidump_on_failure
  /\ threads[1].fault.code = EXCEPTION_ACCESS_VIOLATION
  /\ Len(log) >= 4
  /\ log[Len(log) - 3].ev = "LogAsanErrorInfo"

\* C17: at most one thread is past the acquisition of lock_ in the exception
\* filter, and that thread holds lock_; a thread about to run the body of
\* the filter holds block_protect_lock, and no other thread is changing
\* page protections or is inside OnError with that lock.
Thm_C17_CrashSerialisation ==
  \A t \in Threads :
    /\ threads[t].pc \in {"Filter_locked", "Filter_body"} =>
         /\ lock_ = t
         /\ \A u \in Threads \ {t} :
              threads[u].pc \notin {"Filter_locked", "Filter_body"}
    /\ threads[t].pc = "Filter_body" =>
         /\ block_protect_lock.owner = t
         /\ block_protect_lock.depth >= 1
         /\ \A u \in Threads \ {t} :
              threads[u].pc \notin {"BlockProtect", "OnError_locked"}

\* C17 witness: thread 1 is about to run the body of the filter for an
\* access violation while thread 2 waits at the entry of the filter and
\* cannot take lock_.
Wit_C17_SecondCrashWaits ==
  /\ threads[1].pc = "Filter_body"
  /\ threads[1].fault.code = EXCEPTION_ACCESS_VIOLATION
  /\ threads[2].pc = "Filter"
  /\ threads[2].fault.code = EXCEPTION_ACCESS_VIOLATION
  /\ lock_ = 1
  /\ block_protect_lock.owner = 1

\* C18: no thread waits for lock_ at the entry of the exception filter
\* while it holds block_protect_lock and the holder of lock_ waits for
\* block_protect_lock.
Cex_C18_NoLockCycle ==
  \A t \in Threads, u \in Threads :
    ~(/\ t # u
      /\ threads[t].pc = "Filter"
      /\ block_protect_lock.owner = t
      /\ lock_ = u
      /\ threads[u].pc = "Filter_locked")

\* C21: the whole-heap check runs during error processing if and only if
\* check_heap_on_failure is set: the log holds a run of the heap checker
\* only under a runtime with the option set, and then every error that has
\* been through OnError and every exception other than the sentinel that
\* has been through the filter has one.  With the option clear, every error
\* record has heap_is_corrupt false and no corrupt ranges, and the filter
\* has emitted an error only for a read or write access violation whose
\* address lies in a redzone of an active block.
Thm_C21_HeapCheckIffEnabled ==
  LET check == runtime_.params_.check_heap_on_failure
      checks(t) == {i \in DOMAIN log :
                      log[i].tid = t /\ log[i].ev = "IsHeapCorrupt"}
      filtered(t) == threads[t].pc \in {"done", "crashed", "exited"}
                       /\ threads[t].fault # NoException
  IN  /\ (\E i \in DOMAIN log : log[i].ev = "IsHeapCorrupt") => check
      /\ \A t \in Threads :
           /\ (/\ check
               /\ threads[t].error_info # NoErrorInfo
               /\ threads[t].pc \notin {"OnError", "OnError_locked"})
                => checks(t) # {}
           /\ (/\ check
               /\ filtered(t)
               /\ threads[t].fault.code # kAsanException)
                => \E i \in checks(t) : \E j \in 1 .. i - 1 :
                     log[j].tid = t /\ log[j].ev = "Handling an exception"
           /\ ~check =>
                /\ ~threads[t].error_info.heap_is_corrupt
                /\ threads[t].error_info.corrupt_ranges = "NULL"
                /\ ~threads[t].filter_info.heap_is_corrupt
                /\ threads[t].filter_info.corrupt_ranges = "NULL"
                /\ threads[t].emit_asan_error =>
                     /\ threads[t].fault.code = EXCEPTION_ACCESS_VIOLATION
                     /\ threads[t].fault.nparams >= 2
                     /\ threads[t].fault.info[1] \in {0, 1}
                     /\ IsRedzone(GetShadowMarkerForAddress(
                          shadow, threads[t].fault.info[2]))
                     /\ IsActiveBlock(GetShadowMarkerForAddress(
                          shadow, threads[t].fault.info[2]))

\* C21 witness: with the heap check disabled, a breakpoint exception has
\* been through the filter, which ran no heap check and emitted no error.
Wit_C21_UncheckedExceptionIgnored ==
  /\ runtime_.bound
  /\ ~runtime_.params_.check_heap_on_failure
  /\ threads[1].pc = "done"
  /\ threads[1].fault.code = EXCEPTION_BREAKPOINT
  /\ threads[1].error_info = NoErrorInfo
  /\ ~threads[1].emit_asan_error
  /\ \E i \in DOMAIN log : log[i].ev = "Handling an exception"
  /\ \A i \in DOMAIN log : log[i].ev # "IsHeapCorrupt"

\* C22: with the heap check enabled, when an exception that is neither the
\* sentinel nor an access violation the filter takes over has been through
\* the filter and the heap checker found a corrupt range, the filter has
\* emitted an error of type CORRUPT_HEAP with unknown access mode, the code
\* address of the exception as location and heap_is_corrupt set, and has
\* reported it as such; when the checker found no corrupt range the filter
\* has emitted no error and reported nothing for the exception.
Thm_C22_CorruptHeapError ==
  \A t \in Threads :
    (/\ runtime_.params_.check_heap_on_failure
     /\ threads[t].pc \in {"done", "crashed", "exited"}
     /\ threads[t].fault # NoException
     /\ threads[t].fault.code # kAsanException
     /\ ~IsRedzoneAccessViolation(shadow, threads[t].fault)) =>
      LET entered == CHOOSE i \in DOMAIN log :
                       /\ log[i].tid = t
                       /\ log[i].ev = "Handling an exception"
                       /\ \A j \in i + 1 .. Len(log) :
                            log[j].ev # "Handling an exception"
          after(ev) == {i \in DOMAIN log :
                          i > entered /\ log[i].tid = t /\ log[i].ev = ev}
      IN  /\ Cardinality(after("IsHeapCorrupt")) = 1
          /\ IF after("WriteCorruptHeapInfo") # {}
             THEN /\ threads[t].emit_asan_error
                  /\ threads[t].filter_info.error_type = "CORRUPT_HEAP"
                  /\ threads[t].filter_info.access_mode
                       = "ASAN_UNKNOWN_ACCESS"
                  /\ threads[t].filter_info.location
                       = threads[t].fault.address
                  /\ threads[t].filter_info.heap_is_corrupt
                  /\ Cardinality(after("LogAsanErrorInfo")) = 1
                  /\ \A i \in after("LogAsanErrorInfo") :
                       log[i].error_type = "CORRUPT_HEAP"
             ELSE /\ ~threads[t].emit_asan_error
                  /\ ~threads[t].filter_info.heap_is_corrupt
                  /\ after("LogAsanErrorInfo") = {}
                  /\ threads[t].exception = threads[t].fault

\* C22 witness: an access violation outside every block has been through
\* the filter while the heap held a corrupt range, and the filter has
\* emitted a CORRUPT_HEAP error at the code address.
Wit_C22_CorruptHeapEmitted ==
  /\ runtime_.params_.check_heap_on_failure
  /\ threads[1].pc = "done"
  /\ threads[1].fault.code = EXCEPTION_ACCESS_VIOLATION
  /\ threads[1].fault.nparams = 2
  /\ threads[1].fault.info[1] = 1
  /\ GetShadowMarkerForAddress(shadow, threads[1].fault.info[2])
       = kHeapAddressableMarker
  /\ threads[1].emit_asan_error
  /\ threads[1].filter_info.error_type = "CORRUPT_HEAP"
  /\ threads[1].filter_info.location = threads[1].fault.address
  /\ \E i \in DOMAIN log : log[i].ev = "WriteCorruptHeapInfo"

\* C23: with the shadow as Shadow::SetUp leaves it outside the arena,
\* GetBadAccessInformation reports a location at or above kAddressUpperBound
\* (bit 31 set), whose granule has no entry in the shadow array, and a
\* location inside shadow_ or inside page_bits_ as WILD_ACCESS, and a
\* location below kAddressLowerBound as INVALID_ADDRESS; the report keeps
\* the location, the mode and the size of the access.
Thm_C23_WildAndInvalidAddresses ==
  last.op = "GetBadAccessInformation" =>
    LET location == last.addr
        report == errors[Len(errors)]
    IN  /\ Len(errors) = 1
        /\ report.location = location
        /\ report.access_mode = last.mode
        /\ report.access_size = last.size
        /\ location >= kAddressUpperBound =>
             /\ location \div kShadowRatio \notin DOMAIN shadow
             /\ report.error_type = "WILD_ACCESS"
        /\ (/\ location >= kShadowAddress
            /\ location < kShadowAddress + kShadowSize)
             => report.error_type = "WILD_ACCESS"
        /\ (/\ location >= kPageBitsAddress
            /\ location < kPageBitsAddress + kPageBitsSize)
             => report.error_type = "WILD_ACCESS"
        /\ location < kAddressLowerBound =>
             report.error_type = "INVALID_ADDRESS"

\* C23 witness: with a quarantined block in the arena, the last byte of the
\* page protection bits has been reported as a wild access.
Wit_C23_PageBitsWildAccess ==
  /\ last.op = "GetBadAccessInformation"
  /\ last.addr = kPageBitsAddress + kPageBitsSize - 1
  /\ block_info.state = "QUARANTINED_BLOCK"
  /\ Len(errors) = 1
  /\ errors[1].error_type = "WILD_ACCESS"

Thm_C25_PageIsProtectedBeforeOrAfter ==
  /\ [](\A t \in Threads :
          updates[t].pc \in {"load", "store", "unlock"} => page_bits_lock_ = t)
  /\ [][RacingPageIsProtected =>
          LET h == page_bits_lock_
              a == probe'.addr
              r == probe'.result
              marked == \E p \in MarkedPages(updates[h]) : AddressToPageMask(p) = AddressToPageMask(a)
          IN  IF h = 0 THEN r = PageIsProtected(page_bits_, a)
              ELSE /\ marked => r \in {PageIsProtected(updates[h].old, a), updates[h].protect}
                   /\ ~marked => r = PageIsProtected(updates[h].old, a)]_vars

\* C25 witness: MarkPagesProtected or MarkPagesUnprotected has stored the
\* bit of its first page and not yet that of its second, and
\* PageIsProtected has returned for the second page the value it had before
\* the call, which is not the value the call leaves.
Wit_C25_StalePageBitDuringUpdate ==
  \E t \in Threads :
    /\ page_bits_lock_ = t
    /\ updates[t].pc \in {"load", "store"}
    /\ updates[t].page > updates[t].addr
    /\ updates[t].page < updates[t].page_end
    /\ page_bits_ # updates[t].old
    /\ probe.done
    /\ probe.addr = updates[t].page
    /\ probe.result = PageIsProtected(updates[t].old, probe.addr)
    /\ probe.result # updates[t].protect

Cex_C27_PartialByteIsLast ==
  (last.op = "Poison" /\ last.addr % 8 # 0) =>
    shadow[(last.addr + last.size - 1) \div 8] \in 1 .. 7

\* C27, amended: after Poison(addr, size, marker), where addr + size is
\* granule-aligned, the size/8 whole granules of [addr, addr + size) hold
\* marker; when addr is not granule-aligned, the shadow byte of the granule
\* addr lies in, which is the first shadow byte of the range, holds the
\* partial-length form addr mod 8 (the bytes below addr stay accessible,
\* those from addr on are not); no other shadow byte changes.
Thm_C27_PoisonPartialByteIsFirst ==
  last.op = "Poison" =>
    LET index == last.addr \div 8
        start == last.addr % 8
        whole == (last.addr + 7) \div 8 .. (last.addr + last.size) \div 8 - 1
    IN  /\ (last.addr + last.size) % 8 = 0
        /\ Cardinality(whole) = last.size \div 8
        /\ \A i \in whole : shadow[i] = last.marker
        /\ start # 0 =>
             /\ shadow[index] = start
             /\ \A i \in whole : index < i
             /\ \A p \in index * 8 .. index * 8 + 7 :
                  IsAccessible(shadow, p) <=> p < last.addr
        /\ \A i \in DOMAIN shadow :
             (i \notin whole /\ (start = 0 \/ i # index)) => shadow[i] = before[i]

\* C27 witness: Poison from the middle of a granule over two more granules:
\* the granule of addr holds addr mod 8 and the last granule of the range
\* holds the marker.
Wit_C27_PartialFirstGranule ==
  /\ last.op = "Poison"
  /\ last.addr % 8 = 3
  /\ last.size = 2 * 8 + 5
  /\ shadow[last.addr \div 8] = 3
  /\ shadow[(last.addr + last.size - 1) \div 8] = last.marker
  /\ before[last.addr \div 8] # 3

\* C28: with nested blocks poisoned inside the body of the outer block,
\* BlockInfoFromShadow on any address of the outer envelope succeeds and
\* recovers the innermost block that has the address: the outer block for
\* an address outside every nested block, whatever nested blocks lie to
\* its left or right, and the nested block for an address of a nested
\* envelope, its start and end granules included.
Thm_C28_NestedRecovery ==
  (block_info.state = "ALLOCATED_BLOCK" /\ last.op = "PoisonAllocatedBlock") =>
    \A p \in Envelope(block_info) :
      (p % kShadowRatio \in {0, kShadowRatio - 1}) =>
        \E b \in {InnermostBlock(p)[1]}, r \in {BlockInfoFromShadow(shadow, p)} :
          /\ r.ok
          /\ r.info.block = b.block
          /\ r.info.block_size = b.block_size
          /\ r.info.header_size = b.header_size
          /\ r.info.trailer_size = b.trailer_size
          /\ r.info.is_nested = b.is_nested

\* C28 witness: two nested blocks side by side in the outer body with a
\* gap between them, and an address of the gap from which the outer block
\* is recovered.
Wit_C28_BetweenTwoNestedBlocks ==
  /\ block_info.state = "ALLOCATED_BLOCK"
  /\ last.op = "PoisonAllocatedBlock"
  /\ Len(blocks) = 2
  /\ blocks[1].block + blocks[1].block_size < blocks[2].block
  /\ \E p \in BodyBytes(block_info) :
       /\ blocks[1].block + blocks[1].block_size <= p
       /\ p < blocks[2].block
       /\ BlockInfoFromShadow(shadow, p).ok
       /\ BlockInfoFromShadow(shadow, p).info.block = block_info.block
       /\ BlockInfoFromShadow(shadow, blocks[1].block).info.block = blocks[1].block
       /\ BlockInfoFromShadow(shadow, blocks[2].block + blocks[2].block_size - 1).info.block = blocks[2].block

\* C29: BlockInfoFromShadow returns no block rather than a wrong one,
\* checked with at most one nested block in the outer block.  A block it
\* returns has the address, a block start marker on its first
\* granule and a block end marker on its last.  It fails for an address
\* that no poisoned block has (the left scan meets the end of the outer,
\* non-nested block, or gets to the address lower bound).  And once one
\* granule of the outer block has been poisoned anew, it fails for an
\* address of a block when a non-nested block start was put to its right
\* in that block or a non-nested block end to its left in that block (the
\* scan meets it at a depth above 0), and for an address of the outer block
\* outside every nested block when the outer block's end marker was made
\* addressable (the right scan gets to the end of the shadow).
Thm_C29_FailsRatherThanWrongBlock ==
  \A p \in AllAddresses :
    (p % kShadowRatio = 0 /\ Len(blocks) <= 1) =>
      \E r \in {BlockInfoFromShadow(shadow, p)}, in \in {InnermostBlock(p)} :
        /\ r.ok =>
             /\ IsBlockStart(shadow[r.info.block \div kShadowRatio])
             /\ IsBlockEnd(shadow[(r.info.block + r.info.block_size) \div kShadowRatio - 1])
             /\ r.info.block <= p
             /\ p < r.info.block + r.info.block_size
        /\ (last.op # "Poison" /\ in = <<>>) => ~r.ok
        /\ (last.op = "Poison" /\ in # <<>> /\ last.addr \in Envelope(in[1])) =>
             /\ (last.marker = kHeapBlockStartMarker0 /\ p < last.addr) => ~r.ok
             /\ (last.marker = kHeapBlockEndMarker /\ p > last.addr) => ~r.ok
        /\ (/\ last.op = "Poison"
            /\ in = <<block_info>>
            /\ last.marker = kHeapAddressableMarker
            /\ last.addr = block_info.block + block_info.block_size - kShadowRatio) =>
             ~r.ok

\* C29 witness: a non-nested block start was poisoned into the outer body
\* to the right of a nested block, and the lookup of the first byte of the
\* outer body, which succeeded before, now fails.
Wit_C29_StrayStartInOuterBody ==
  /\ last.op = "Poison"
  /\ last.marker = kHeapBlockStartMarker0
  /\ Len(blocks) = 1
  /\ BodyOf(block_info) < blocks[1].block
  /\ blocks[1].block + blocks[1].block_size < last.addr
  /\ last.addr \in BodyBytes(block_info)
  /\ BlockInfoFromShadow(before, BodyOf(block_info)).ok
  /\ ~BlockInfoFromShadow(shadow, BodyOf(block_info)).ok

\* C30: after MarkAsFreed(addr, size) on the body of the outer block or of
\* a nested block, or on the whole outer envelope, every shadow byte of
\* the ceil(size / 8) granules from addr that held an active left redzone
\* marker (block start, left padding) or an active right redzone marker
\* (right padding, block end) holds the same value, every other shadow
\* byte of these granules holds kHeapFreedMarker, no other shadow byte has
\* changed, a second MarkAsFreed of the same range changes nothing, and
\* BlockInfoFromShadow recovers from every granule of the outer envelope
\* the layout of the innermost block that has it, as it did before.
Thm_C30_FreedKeepsNestedStructure ==
  last.op = "MarkAsFreed" =>
    LET first == last.addr \div kShadowRatio
        length == (last.size + kShadowRatio - 1) \div kShadowRatio
    IN  /\ \A i \in DOMAIN shadow :
             shadow[i] =
               IF i < first \/ i >= first + length THEN before[i]
               ELSE IF IsActiveLeftRedzone(before[i]) THEN before[i]
               ELSE IF IsActiveRightRedzone(before[i]) THEN before[i]
               ELSE kHeapFreedMarker
        /\ MarkAsFreed(shadow, last.addr, last.size) = shadow
        /\ \A p \in Envelope(block_info) :
             (p % kShadowRatio = 0) =>
               \E b \in {InnermostBlock(p)[1]}, r \in {BlockInfoFromShadow(shadow, p)} :
                 /\ r.ok
                 /\ r.info.block = b.block
                 /\ r.info.block_size = b.block_size
                 /\ r.info.header_size = b.header_size
                 /\ r.info.trailer_size = b.trailer_size
                 /\ r.info.is_nested = b.is_nested

\* C30 witness: the body of the outer block was freed while it held a
\* nested block with another one inside: the markers of the innermost
\* block are as they were, the first granule of the outer body is freed,
\* and the innermost block is still recovered.
Wit_C30_OuterBodyFreedAroundNested ==
  /\ last.op = "MarkAsFreed"
  /\ last.addr = BodyOf(block_info)
  /\ last.size = block_info.body_size
  /\ Len(blocks) = 2
  /\ Envelope(blocks[2]) \subseteq BodyBytes(blocks[1])
  /\ shadow[blocks[2].block \div kShadowRatio] = BuildBlockStart(TRUE, TRUE, blocks[2].body_size % kShadowRatio)
  /\ shadow[(blocks[2].block + blocks[2].block_size) \div kShadowRatio - 1] = kHeapNestedBlockEndMarker
  /\ before[BodyOf(block_info) \div kShadowRatio] = kHeapAddressableMarker
  /\ shadow[BodyOf(block_info) \div kShadowRatio] = kHeapFreedMarker
  /\ BlockInfoFromShadow(shadow, BodyOf(blocks[2])).info.block = blocks[2].block

\* C31: a walker over a range that has every block it touches whole has
\* neither read outside the shadow nor failed its CHECK; after n calls of
\* Next it has reported, in ascending order of address (an enclosing block
\* before the blocks nested in it), the first n of the blocks of the range
\* that it is to report: every block in the recursive mode, the blocks
\* that are not nested otherwise; each block is reported once, with its
\* base, size, header size, trailer size and nested flag; and a call
\* returns true iff it reports a block, so that every call after the last
\* block returns false.
Thm_C31_WalkerEnumeration ==
  LET InRange(b) ==
        /\ walker.lower_bound_ <= b.block
        /\ b.block + b.block_size <= walker.upper_bound_
      Outside(b) ==
        \/ b.block + b.block_size <= walker.lower_bound_
        \/ walker.upper_bound_ <= b.block
      ToReport(b) == InRange(b) /\ (walker.recursive_ \/ ~b.is_nested)
      expected == SelectSeq(blocks, ToReport)
  IN  (/\ walker.state # "none"
       /\ \A i \in DOMAIN blocks : InRange(blocks[i]) \/ Outside(blocks[i]))
        => /\ walker.state = "walking"
           /\ Len(walker.reported) =
                IF walker.calls <= Len(expected) THEN walker.calls
                ELSE Len(expected)
           /\ \A i \in DOMAIN walker.reported :
                /\ i <= Len(expected)
                /\ walker.reported[i].block = expected[i].block
                /\ walker.reported[i].block_size = expected[i].block_size
                /\ walker.reported[i].header_size = expected[i].header_size
                /\ walker.reported[i].trailer_size = expected[i].trailer_size
                /\ walker.reported[i].is_nested = expected[i].is_nested
                /\ \A j \in DOMAIN walker.reported :
                     i < j => walker.reported[i].block < walker.reported[j].block
           /\ walker.calls > 0 =>
                (walker.result <=> walker.calls <= Len(expected))

\* C31 witness: a recursive walker over the arena has reported a block,
\* the block nested in it and the block nested in that one, in this order,
\* and has then returned false twice.
Wit_C31_RecursiveWalkOfNestedBlocks ==
  /\ walker.state = "walking"
  /\ walker.recursive_
  /\ Len(blocks) = 3
  /\ Len(walker.reported) = 3
  /\ walker.calls = 5
  /\ ~walker.result
  /\ ~walker.reported[1].is_nested
  /\ walker.reported[2].is_nested
  /\ walker.reported[3].is_nested
  /\ walker.reported[2].block > walker.reported[1].block
  /\ walker.reported[3].block > walker.reported[2].block
  /\ walker.reported[3].block + walker.reported[3].block_size
       < walker.reported[2].block + walker.reported[2].block_size
  /\ walker.reported[2].block + walker.reported[2].block_size
       < walker.reported[1].block + walker.reported[1].block_size

\* C32: after the constructor and after every call of Next the walker has
\* not read outside the shadow, its cursor is between its lower bound and
\* its upper bound, and Next has returned false by the time it has been
\* called twice more than there are blocks.
Cex_C32_WalkerStaysInBounds ==
  walker.state # "none" =>
    /\ walker.state # "read outside shadow_"
    /\ walker.lower_bound_ <= walker.cursor_
    /\ walker.cursor_ <= walker.upper_bound_
    /\ walker.calls >= Len(blocks) + 2 => ~walker.result

\* C33: for every cursor of the shadow and every initial nesting depth,
\* ScanRightForBracketingBlockEnd returns the success flag and the
\* location that a scan returns which inspects the shadow bytes from the
\* cursor one at a time; every shadow byte ScanRightForPotentialHeaderBytes
\* skips is addressable or freed, so no block start and no block end is
\* skipped, and the position it returns is not beyond the end of the
\* shadow (it reads no byte outside the shadow).
Thm_C33_RightScanIsByteScan ==
  LET RECURSIVE ByteScan(_, _)
      ByteScan(pos, nesting_depth) ==
        IF pos >= kShadowSize THEN [ok |-> FALSE, location |-> 0]
        ELSE IF IsBlockEnd(shadow[pos])
        THEN IF nesting_depth = 0 THEN [ok |-> TRUE, location |-> pos]
             ELSE IF ~IsNestedBlockEnd(shadow[pos])
             THEN [ok |-> FALSE, location |-> 0]
             ELSE ByteScan(pos + 1, nesting_depth - 1)
        ELSE IF IsBlockStart(shadow[pos])
        THEN IF nesting_depth + 1 > 0 /\ ~IsNestedBlockStart(shadow[pos])
             THEN [ok |-> FALSE, location |-> 0]
             ELSE ByteScan(pos + 1, nesting_depth + 1)
        ELSE ByteScan(pos + 1, nesting_depth)
  IN  \A cursor \in 0 .. kShadowSize - 1 :
        /\ \A initial_nesting_depth \in 0 .. 2 :
             ScanRightForBracketingBlockEnd(shadow, initial_nesting_depth, cursor)
               = ByteScan(cursor, IF IsBlockStart(shadow[cursor])
                                  THEN initial_nesting_depth - 1
                                  ELSE initial_nesting_depth)
        /\ \E pos \in {ScanRightForPotentialHeaderBytes(shadow, cursor, kShadowSize)} :
             /\ cursor <= pos
             /\ pos <= kShadowSize
             /\ \A i \in cursor .. pos - 1 :
                  shadow[i] \in {kHeapAddressableMarker, kHeapFreedMarker}

\* C33 witness: from a cursor of alignment 1 in a freed body the scan
\* skips 1, 2, 4 and then 8 freed shadow bytes, and finds the block end.
Wit_C33_SkippedFreedRunUnaligned ==
  /\ last.op = "MarkAsFreed"
  /\ \E cursor \in 0 .. kShadowSize - 1 :
       /\ cursor % 8 = 1
       /\ shadow[cursor] = kHeapFreedMarker
       /\ ScanRightForPotentialHeaderBytes(shadow, cursor, kShadowSize) >= cursor + 15
       /\ ScanRightForBracketingBlockEnd(shadow, 0, cursor).ok

\* C34: after WriteCorruptHeapInfo(corrupt_ranges, buffer_size, ...) no
\* CHECK has failed, corrupt_range_count is the number of ranges,
\* corrupt_block_count is the sum of their block counts (the number of
\* blocks, not nested, that the ranges hold), corrupt_ranges_reported is
\* min(number of ranges, buffer_size div (sizeof(AsanCorruptBlockRange) +
\* sizeof(AsanBlockInfo))), every range reported is a copy of the range
\* given with block_info_count = 1 and a block record of its own that
\* holds the first block of the range, one range record and one block
\* record are written per range reported, every record written lies in
\* the bytes 0 .. buffer_size - 1 of the buffer, and heap_is_corrupt is
\* true iff the list of ranges is not empty.
Thm_C34_CorruptHeapInfoInBuffer ==
  corrupt_heap_info.state # "none" =>
    LET c == corrupt_heap_info
        fit == c.buffer_size \div (sizeof_AsanCorruptBlockRange + sizeof_AsanBlockInfo)
        held == {i \in DOMAIN blocks :
                   /\ ~blocks[i].is_nested
                   /\ \E n \in DOMAIN c.ranges :
                        /\ c.ranges[n].address <= blocks[i].block
                        /\ blocks[i].block < c.ranges[n].address + c.ranges[n].length}
    IN  /\ c.state = "returned"
        /\ c.corrupt_range_count = Len(c.ranges)
        /\ c.corrupt_block_count = Cardinality(held)
        /\ c.corrupt_ranges_reported = IF fit < Len(c.ranges) THEN fit ELSE Len(c.ranges)
        /\ Len(c.corrupt_ranges) = c.corrupt_ranges_reported
        /\ \A i \in DOMAIN c.corrupt_ranges :
             /\ c.corrupt_ranges[i].address = c.ranges[i].address
             /\ c.corrupt_ranges[i].length = c.ranges[i].length
             /\ c.corrupt_ranges[i].block_count = c.ranges[i].block_count
             /\ c.corrupt_ranges[i].block_info_count = 1
             /\ c.corrupt_ranges[i].header = c.ranges[i].address
             /\ \A j \in DOMAIN c.corrupt_ranges :
                  i # j => c.corrupt_ranges[i].block_info # c.corrupt_ranges[j].block_info
             /\ \E w \in DOMAIN c.written :
                  /\ c.written[w].kind = "AsanBlockInfo"
                  /\ c.written[w].offset = c.corrupt_ranges[i].block_info
        /\ Len(c.written) = 2 * c.corrupt_ranges_reported
        /\ \A w \in DOMAIN c.written :
             /\ 0 <= c.written[w].offset
             /\ c.written[w].offset + c.written[w].size <= c.buffer_size
             /\ \A v \in DOMAIN c.written :
                  v # w =>
                    \/ c.written[v].offset + c.written[v].size <= c.written[w].offset
                    \/ c.written[w].offset + c.written[w].size <= c.written[v].offset
        /\ c.heap_is_corrupt <=> c.ranges # <<>>

\* C34 witness: of two corrupt ranges, the first of two blocks, only the
\* first is reported, the buffer being one byte short of two pairs of
\* records.
Wit_C34_BufferOneByteShort ==
  /\ corrupt_heap_info.state = "returned"
  /\ Len(corrupt_heap_info.ranges) = 2
  /\ corrupt_heap_info.ranges[1].block_count = 2
  /\ corrupt_heap_info.buffer_size = 2 * (sizeof_AsanCorruptBlockRange + sizeof_AsanBlockInfo) - 1
  /\ corrupt_heap_info.corrupt_range_count = 2
  /\ corrupt_heap_info.corrupt_block_count = 3
  /\ corrupt_heap_info.corrupt_ranges_reported = 1
  /\ Len(corrupt_heap_info.written) = 2

\* C35: when MarkPagesProtected(addr, size) or MarkPagesUnprotected(addr,
\* size) is about to return, the bit of every page that has a byte of
\* [addr, addr + size) is set, or clear for MarkPagesUnprotected, the bit
\* of every other page is as it was when the call took the lock, and so
\* the updates of two threads to bits of one byte are both in the bitmap.
Cex_C35_EveryPageOfRangeMarked ==
  \A t \in Threads :
    updates[t].pc = "unlock" =>
      \A a \in 0 .. kAddressUpperBound - 1 :
        PageIsProtected(page_bits_, a) =
          IF \E b \in updates[t].addr .. updates[t].page_end - 1 :
               AddressToPageMask(b) = AddressToPageMask(a)
          THEN updates[t].protect
          ELSE PageIsProtected(updates[t].old, a)

\* C36: across the SetUp and TearDown calls of any number of runtimes, one
\* after the other and with option strings that parse or not, the
\* unhandled exception filter is installed at most once: a step changes
\* the filter of the process only while uef_installed_ is false, it then
\* installs UnhandledExceptionFilter and records the filter that was there
\* in previous_uef_, and nothing is installed or recorded afterwards.  One
\* runtime is bound at a time: a bound runtime_ is never replaced by
\* another one, and the step that changes it, TearDown, leaves the null
\* runtime.
Thm_C36_FilterInstalledOnce ==
  [][/\ host.uef_installed_ => host' = host
     /\ host' # host =>
          /\ ~host.uef_installed_ /\ host'.uef_installed_
          /\ host'.filter = "UnhandledExceptionFilter"
          /\ host'.previous_uef_ = host.filter
          /\ host'.exports_CrashForException = host.exports_CrashForException
     /\ (runtime_.bound /\ runtime_' # runtime_) => runtime_' = NullRuntime
     /\ (~runtime_.bound /\ runtime_' # runtime_) => runtime_'.bound]_vars

\* A second runtime is bound, by a SetUp that returned at the parse
\* failure, after the first one installed the filter over the filter of
\* the host: the filter recorded is still the one of the host.
Wit_C36_SecondRuntimeKeepsPreviousFilter ==
  /\ runtime_.bound
  /\ runtime_.asan_error_callback_ = "null"
  /\ host.uef_installed_
  /\ host.filter = "UnhandledExceptionFilter"
  /\ host.previous_uef_ = "HostFilter"

\* C37: an exception delivered to the filter while runtime_ is null is
\* handled without a read through runtime_: no entry of the log is the
\* read of runtime_->logger_ through the null pointer; and the filter
\* that has returned has emitted no ASan error and ends by handing the
\* exception as it came to the previous filter, or by returning
\* EXCEPTION_CONTINUE_SEARCH.
Cex_C37_FilterSafeWithoutRuntime ==
  /\ \A i \in DOMAIN log : log[i].ev # "read of NULL runtime_"
  /\ \A t \in Threads :
       (/\ threads[t].pc \in {"done", "crashed"}
        /\ ~runtime_.bound
        /\ threads[t].fault.code # kAsanException) =>
         /\ ~threads[t].emit_asan_error
         /\ threads[t].exception = threads[t].fault
         /\ log # <<>>
         /\ log[Len(log)].ev \in {"previous_uef_", "EXCEPTION_CONTINUE_SEARCH"}

\* C38: once SetUp has returned, whatever the option string, the runtime
\* that is bound has an error callback registered, the unhandled exception
\* filter of the process is installed, and its heap manager has been
\* initialised.
Cex_C38_SetUpCompletes ==
  runtime_.bound =>
    /\ runtime_.asan_error_callback_ # "null"
    /\ host.uef_installed_
    /\ host.filter = "UnhandledExceptionFilter"
    /\ runtime_.heap_manager_ = "initialized"

\* C39: an exception wrapped by RaiseFilteredException (a code other than
\* the sentinel, flags, n arguments, n from 0 up to more than the four
\* slots the sentinel uses) that has been through the filter has its code,
\* its flags and its parameter count back, and its first n parameters are
\* the n original arguments; the record the filter hands on does not carry
\* the sentinel code.
Thm_C39_SentinelRoundTrip ==
  \A t \in Threads :
    (/\ threads[t].pc \in {"done", "crashed"}
     /\ runtime_.bound
     /\ threads[t].fault.code = kAsanException) =>
      /\ threads[t].exception.code = threads[t].fault.info[1]
      /\ threads[t].exception.flags = threads[t].fault.info[2]
      /\ threads[t].exception.nparams = threads[t].fault.info[3]
      /\ \A i \in 1 .. threads[t].fault.info[3] :
           threads[t].exception.info[i] = threads[t].fault.info[4][i]
      /\ threads[t].exception.code # kAsanException
      /\ log[Len(log)].ev \in {"previous_uef_", "EXCEPTION_CONTINUE_SEARCH"}

\* A breakpoint exception with five arguments, wrapped, has been through
\* the filter called by CrashForException and has its five arguments back.
Wit_C39_FiveArgumentsRestored ==
  /\ threads[1].pc = "done"
  /\ runtime_.bound
  /\ threads[1].fault = RaiseFilteredException(EXCEPTION_BREAKPOINT, 1, 5, <<5, 4, 3, 2, 1>>)
  /\ threads[1].exception.code = EXCEPTION_BREAKPOINT
  /\ threads[1].exception.flags = 1
  /\ threads[1].exception.nparams = 5
  /\ threads[1].exception.info = <<5, 4, 3, 2, 1>>

\* C40: IsAccessible, IsLeftRedzone, IsRightRedzone, IsBlockStartByte and
\* IsBeginningOfBlockBody (of an address that is not NULL) read only
\* indices 0 .. kShadowSize - 1 of shadow_, for every address below the
\* upper bound and every shadow, the one whose last granule holds a
\* partial marker included.
Cex_C40_QueriesReadInsideShadow ==
  \A address \in AllAddresses :
    \A query \in {"IsAccessible", "IsLeftRedzone", "IsRightRedzone",
                  "IsBlockStartByte", "IsBeginningOfBlockBody"} :
      (query = "IsBeginningOfBlockBody" => address # 0) =>
        ShadowIndicesRead(shadow, query, address) \subseteq 0 .. kShadowSize - 1
====
